---- MODULE Spec2Model ----
(***************************************************************************)
(* Recommendation engine of rec-engine: the request handler                *)
(* RecommendationService.generate_recommendations, the scorer              *)
(* (_recommend_existing_routines and its helpers), the weakness-driven     *)
(* synthesis of new routines, the feature extractor and the                *)
(* SimpleRecommender the service loads at construction.                    *)
(*                                                                         *)
(* Six specifications share the variables:                                 *)
(*   Spec      the service: construction, then one request after another   *)
(*   SpecFn    the scorer's functions called directly                      *)
(*   SpecLife  one SimpleRecommender under train, predict, save and load   *)
(*   SpecOwn   SpecLife on a path that holds no file at the start          *)
(*   SpecFeat  the feature extractor called directly                       *)
(*   SpecConc  two requests in flight, their steps interleaved             *)
(*                                                                         *)
(* Numbers.  Python floats are modelled as exact integers on fixed grids:  *)
(*   completion_rate          hundredths        (0.7  is 70)               *)
(*   avg_time_delta           seconds           (-60  is -60)              *)
(*   probabilities and scores 1/ScoreUnit       (0.5  is 5000, 5.0 50000)  *)
(* Strings that the code searches (routine names) are sequences of         *)
(* one-character strings, so that lower() and `in` are computed.           *)
(* An optional value (a missing column value, NaN) is <<>>, a present      *)
(* value v is <<v>>.                                                       *)
(***************************************************************************)
EXTENDS Integers, Sequences, FiniteSets, TLC

VARIABLES
    pc,           \* "start": service not constructed; "idle"; "responded";
                  \* "failed": a fetch raised; "saving": save() is writing
    model,        \* the service's SimpleRecommender: [model, scaler, is_trained]
    artifact,     \* the file at ML_MODEL_PATH: <<>> (absent) or <<data>>
    workout_df,   \* the workout history fetched for the request in progress
    routines_df,  \* the routine library fetched for the request in progress
    resp,         \* what generate_recommendations gave its caller
    trace,        \* what the handler did: steps run, per-candidate scoring
    fnArgs,       \* inputs of a direct call of one scorer function
    fnOut,        \* what that call returned
    fresh         \* a second SimpleRecommender, constructed to load the artifact

vars == <<pc, model, artifact, workout_df, routines_df, resp, trace, fnArgs, fnOut, fresh>>

-----------------------------------------------------------------------------
(* Bounds and program constants *)

\* longest routine library a request fetches
MaxRoutines == 6

\* recommendations[:5]
TopExisting == 5
\* routines[:3]
TopNew == 3
\* min(10, max(1, int(score)))
MinPriority == 1
MaxPriority == 10

\* one unit of score or probability is 1/ScoreUnit
ScoreUnit == 100 * 100

Min(a, b) == IF a < b THEN a ELSE b
Max(a, b) == IF a > b THEN a ELSE b

-----------------------------------------------------------------------------
(* Strings: str.lower() and the substring test `w in s` *)

UpperLetters ==
    <<"A","B","C","D","E","F","G","H","I","J","K","L","M",
      "N","O","P","Q","R","S","T","U","V","W","X","Y","Z">>
LowerLetters ==
    <<"a","b","c","d","e","f","g","h","i","j","k","l","m",
      "n","o","p","q","r","s","t","u","v","w","x","y","z">>

\* the lower-case form of each upper-case letter
LowerTable ==
    [c \in {UpperLetters[i] : i \in 1..26} |->
        LowerLetters[CHOOSE i \in 1..26 : UpperLetters[i] = c]]

LowerChar(c) == IF c \in DOMAIN LowerTable THEN LowerTable[c] ELSE c

Lower(s) == [i \in 1..Len(s) |-> LowerChar(s[i])]

Contains(s, w) ==
    \E i \in 1..(Len(s) - Len(w) + 1) : SubSeq(s, i, i + Len(w) - 1) = w

\* "".join(names): the names joined without the separator
RECURSIVE JoinSpace_NoSeparator(_)
JoinSpace_NoSeparator(names) ==
    IF Len(names) = 0 THEN <<>>
    ELSE names[1] \o JoinSpace_NoSeparator(Tail(names))

\* " ".join(names)
RECURSIVE JoinSpace(_)
JoinSpace(names) ==
    IF Len(names) = 0 THEN <<>>
    ELSE IF Len(names) = 1 THEN names[1]
    ELSE names[1] \o <<" ">> \o JoinSpace(Tail(names))

KwCardio    == <<"c","a","r","d","i","o">>
KwHiit      == <<"h","i","i","t">>
KwRunning   == <<"r","u","n","n","i","n","g">>
KwEndurance == <<"e","n","d","u","r","a","n","c","e">>
KwStrength  == <<"s","t","r","e","n","g","t","h">>
KwWeight    == <<"w","e","i","g","h","t">>
KwLifting   == <<"l","i","f","t","i","n","g">>
KwPower     == <<"p","o","w","e","r">>

\* data_preparation.py: the keyword lists of has_cardio / has_strength
CardioKeywords   == {KwCardio, KwHiit, KwRunning, KwEndurance}
StrengthKeywords == {KwStrength, KwWeight, KwLifting, KwPower}
\* recommendation_service.py: ["strength", "weight"]
ScoreStrengthKeywords == {KwStrength, KwWeight}

\* dict.get(key, default)
Get(d, key, default) == IF key \in DOMAIN d THEN d[key] ELSE default

\* pd.notna(x) and the value of an optional x
NotNa(x) == Len(x) = 1

-----------------------------------------------------------------------------
(* Feature extractor: data_preparation.prepare_features_for_ml *)

\* the vector for an empty history with completion_rate 1.0 where the code
\* returns 0.0
DefaultFeatures_FullCompletion ==
    [completion_rate |-> 100, avg_time_delta |-> 0, total_workouts |-> 0,
     completed_workouts |-> 0, has_cardio |-> FALSE, has_strength |-> FALSE,
     avg_duration |-> 0]

DefaultFeatures ==
    [completion_rate |-> 0, avg_time_delta |-> 0, total_workouts |-> 0,
     completed_workouts |-> 0, has_cardio |-> FALSE, has_strength |-> FALSE,
     avg_duration |-> 0]

RECURSIVE SumDurations(_)
SumDurations(rows) ==
    IF Len(rows) = 0 THEN 0
    ELSE (IF NotNa(rows[1].final_duration) THEN rows[1].final_duration[1] ELSE 0)
         + SumDurations(Tail(rows))

\* mean of final_duration over the completed rows, in hundredths of a minute;
\* pandas skips NaN in mean(), and the mean of no value is NaN -> 0.0
AvgDuration(wdf) ==
    LET done == SelectSeq(wdf, LAMBDA r : r.completed)
        vals == SelectSeq(done, LAMBDA r : NotNa(r.final_duration))
    IN  IF Len(done) = 0 \/ Len(vals) = 0 THEN 0
        ELSE (SumDurations(vals) * 100) \div (Len(vals) * 60)

RoutineNames(rdf) == [i \in 1..Len(rdf) |-> Lower(rdf[i].name)]

\* the extractor reading the library flags before the empty-history return
prepare_features_for_ml_FlagsFromLibrary(wdf, rdf) ==
    IF Len(wdf) = 0
    THEN [DefaultFeatures EXCEPT
            !.has_cardio = \E w \in CardioKeywords :
                              Contains(JoinSpace(RoutineNames(rdf)), w),
            !.has_strength = \E w \in StrengthKeywords :
                                Contains(JoinSpace(RoutineNames(rdf)), w)]
    ELSE
      LET first == wdf[1]
          joined == JoinSpace(RoutineNames(rdf))
      IN  [completion_rate |->
               IF NotNa(first.completion_rate) THEN first.completion_rate[1] ELSE 0,
           avg_time_delta |->
               IF NotNa(first.avg_time_delta) THEN first.avg_time_delta[1] ELSE 0,
           total_workouts |->
               IF NotNa(first.total_workouts) THEN first.total_workouts[1] ELSE 0,
           completed_workouts |->
               IF NotNa(first.completed_workouts) THEN first.completed_workouts[1] ELSE 0,
           has_cardio |->
               IF Len(rdf) # 0 THEN \E w \in CardioKeywords : Contains(joined, w)
               ELSE FALSE,
           has_strength |->
               IF Len(rdf) # 0 THEN \E w \in StrengthKeywords : Contains(joined, w)
               ELSE FALSE,
           avg_duration |-> AvgDuration(wdf)]

\* prepare_features_for_ml: the feature mapping of one user
prepare_features_for_ml(wdf, rdf) ==
    IF Len(wdf) = 0 THEN DefaultFeatures
    ELSE
      LET first == wdf[1]
          joined == JoinSpace(RoutineNames(rdf))
      IN  [completion_rate |->
               IF NotNa(first.completion_rate) THEN first.completion_rate[1] ELSE 0,
           avg_time_delta |->
               IF NotNa(first.avg_time_delta) THEN first.avg_time_delta[1] ELSE 0,
           total_workouts |->
               IF NotNa(first.total_workouts) THEN first.total_workouts[1] ELSE 0,
           completed_workouts |->
               IF NotNa(first.completed_workouts) THEN first.completed_workouts[1] ELSE 0,
           has_cardio |->
               IF Len(rdf) # 0 THEN \E w \in CardioKeywords : Contains(joined, w)
               ELSE FALSE,
           has_strength |->
               IF Len(rdf) # 0 THEN \E w \in StrengthKeywords : Contains(joined, w)
               ELSE FALSE,
           avg_duration |-> AvgDuration(wdf)]

-----------------------------------------------------------------------------
(* Predictive model: models/simple_recommender.py *)

\* self.model = None
NoneModel == [kind |-> "None"]
\* StandardScaler() before fit
NewScaler == [fitted |-> FALSE, feature_names_in |-> {}]

\* SimpleRecommender.__init__
SimpleRecommender == [model |-> NoneModel, scaler |-> NewScaler, is_trained |-> FALSE]

\* RandomForestClassifier.predict_proba on one row: one column per class seen
\* in training.  The fitted forest is a threshold function of the input; it is
\* modelled by one split on completion_rate with a leaf probability each side.
predict_proba(clf, x) ==
    IF clf.n_classes = 1 THEN <<ScoreUnit>>
    ELSE LET p == IF Get(x, "completion_rate", 0) > clf.split THEN clf.p_hi ELSE clf.p_lo
         IN  <<ScoreUnit - p, p>>

\* predict() without the untrained return: the input goes to scaler.transform
predict_NoUntrainedGuard(m, user_features) ==
    IF ~m.scaler.fitted \/ m.scaler.feature_names_in # DOMAIN user_features
    THEN [raised |-> TRUE, value |-> <<>>]
    ELSE IF m.model = NoneModel
    THEN [raised |-> TRUE, value |-> <<>>]
    ELSE IF ~m.model.fitted \/ m.model.n_features_in # Cardinality(DOMAIN user_features)
    THEN [raised |-> TRUE, value |-> <<>>]
    ELSE [raised |-> FALSE, value |-> predict_proba(m.model, user_features)]

\* SimpleRecommender.predict: [raised, value]
predict(m, user_features) ==
    IF ~m.is_trained \/ m.model = NoneModel
    THEN [raised |-> FALSE, value |-> <<ScoreUnit \div 2, ScoreUnit \div 2>>]
    ELSE IF ~m.scaler.fitted \/ m.scaler.feature_names_in # DOMAIN user_features
    THEN [raised |-> TRUE, value |-> <<>>]    \* scaler.transform raises
    ELSE IF ~m.model.fitted \/ m.model.n_features_in # Cardinality(DOMAIN user_features)
    THEN [raised |-> TRUE, value |-> <<>>]    \* predict_proba raises
    ELSE [raised |-> FALSE, value |-> predict_proba(m.model, user_features)]

\* a fitted RandomForestClassifier, the classifier between construction and
\* fit, and a fitted StandardScaler
Forest(n_features, n_classes, p_lo, p_hi) ==
    [kind |-> "RandomForestClassifier", fitted |-> TRUE, n_features_in |-> n_features,
     n_classes |-> n_classes, split |-> 50, p_lo |-> p_lo, p_hi |-> p_hi]
UnfittedForest ==
    [kind |-> "RandomForestClassifier", fitted |-> FALSE, n_features_in |-> 0,
     n_classes |-> 0, split |-> 50, p_lo |-> 0, p_hi |-> 0]
FittedScaler(names) == [fitted |-> TRUE, feature_names_in |-> names]

\* A training frame is a sequence of rows, each a record over the frame's
\* columns.  A cell is <<v>> (a number), <<>> (NaN) or TextCell (an object
\* value that is no number).
TextCell == <<0, "text">>
IsNumber(cell) == Len(cell) = 1
IsText(cell) == Len(cell) = 2
TrainFeatureNames == {"completion_rate", "avg_time_delta"}

\* the feature columns train() selects from the frame's columns
TrainFeatures(columns) ==
    TrainFeatureNames \cup
        (IF "routine_type_encoded" \in columns THEN {"routine_type_encoded"} ELSE {})

\* share of the rows labelled 1, in 1/ScoreUnit; `whole` when there is no row
LikedShare(rows, whole) ==
    IF rows = {} THEN whole
    ELSE (ScoreUnit * Cardinality({i \in rows : i[2] = 1})) \div Cardinality(rows)

\* RandomForestClassifier(n_estimators=100, random_state=42, max_depth=10).fit:
\* deterministic in the frame; the leaf probabilities are the label shares on
\* each side of the split
fit(workout_data, features) ==
    LET rows == {<<i, workout_data[i].user_preference[1]>> : i \in DOMAIN workout_data}
        hi   == {r \in rows : workout_data[r[1]].completion_rate[1] > 50}
        all  == LikedShare(rows, 0)
        classes == {r[2] : r \in rows}
    IN  IF Cardinality(classes) = 1 THEN Forest(Cardinality(features), 1, 0, 0)
        ELSE Forest(Cardinality(features), Cardinality(classes),
                    LikedShare(rows \ hi, all), LikedShare(hi, all))

\* predict() calling self.scaler.fit_transform(df) where it calls transform:
\* each prediction refits the shared scaler on the request's row
predict_state_Refit(m, user_features) ==
    [m EXCEPT !.scaler = FittedScaler(DOMAIN user_features)]

\* The model state a predict call leaves: predict assigns no attribute of
\* self, of the scaler or of the classifier
predict_state(m, user_features) == m

\* train() without the `workout_data.empty` return: the empty frame has no
\* columns, so the column selection raises
train_NoEmptyGuard(m, workout_data) ==
    IF Len(workout_data) = 0 THEN [raised |-> TRUE, error |-> "KeyError", m |-> m]
    ELSE
      LET columns  == DOMAIN workout_data[1]
          features == TrainFeatures(columns)
      IN  IF ~(features \subseteq columns) \/ "user_preference" \notin columns
          THEN [raised |-> TRUE, error |-> "KeyError", m |-> m]
          ELSE IF \E i \in DOMAIN workout_data, c \in features :
                     IsText(workout_data[i][c])
          THEN [raised |-> TRUE, error |-> "ValueError",
                m |-> [m EXCEPT !.scaler = [fitted |-> FALSE,
                                            feature_names_in |-> features]]]
          ELSE IF \E i \in DOMAIN workout_data :
                     ~IsNumber(workout_data[i].user_preference)
          THEN [raised |-> TRUE, error |-> "ValueError",
                m |-> [m EXCEPT !.scaler = FittedScaler(features),
                                !.model = UnfittedForest]]
          ELSE [raised |-> FALSE, error |-> "",
                m |-> [model |-> fit(workout_data, features),
                       scaler |-> FittedScaler(features),
                       is_trained |-> TRUE]]

\* train() setting is_trained before the classifier is fitted, so that a fit
\* that raises leaves the flag set
train_FlagBeforeFit(m, workout_data) ==
    IF Len(workout_data) = 0 THEN [raised |-> FALSE, error |-> "", m |-> m]
    ELSE
      LET columns  == DOMAIN workout_data[1]
          features == TrainFeatures(columns)
      IN  IF ~(features \subseteq columns) \/ "user_preference" \notin columns
          THEN [raised |-> TRUE, error |-> "KeyError", m |-> m]
          ELSE IF \E i \in DOMAIN workout_data, c \in features :
                     IsText(workout_data[i][c])
          THEN [raised |-> TRUE, error |-> "ValueError",
                m |-> [m EXCEPT !.scaler = [fitted |-> FALSE,
                                            feature_names_in |-> features]]]
          ELSE IF \E i \in DOMAIN workout_data :
                     ~IsNumber(workout_data[i].user_preference)
          THEN [raised |-> TRUE, error |-> "ValueError",
                m |-> [model |-> UnfittedForest, scaler |-> FittedScaler(features),
                       is_trained |-> TRUE]]
          ELSE [raised |-> FALSE, error |-> "",
                m |-> [model |-> fit(workout_data, features),
                       scaler |-> FittedScaler(features),
                       is_trained |-> TRUE]]

\* SimpleRecommender.train: [raised, error, m]; m is the model state the call
\* leaves, also when it raises part-way
train(m, workout_data) ==
    IF Len(workout_data) = 0 THEN [raised |-> FALSE, error |-> "", m |-> m]
    ELSE
      LET columns  == DOMAIN workout_data[1]
          features == TrainFeatures(columns)
      IN  IF ~(features \subseteq columns) \/ "user_preference" \notin columns
          THEN [raised |-> TRUE, error |-> "KeyError", m |-> m]
          ELSE IF \E i \in DOMAIN workout_data, c \in features :
                     IsText(workout_data[i][c])
          \* scaler.fit_transform: fit() resets the scaler, then rejects the frame
          THEN [raised |-> TRUE, error |-> "ValueError",
                m |-> [m EXCEPT !.scaler = [fitted |-> FALSE,
                                            feature_names_in |-> features]]]
          ELSE IF \E i \in DOMAIN workout_data :
                     ~IsNumber(workout_data[i].user_preference)
          \* the scaler is fitted, self.model is the new classifier, fit() raises
          THEN [raised |-> TRUE, error |-> "ValueError",
                m |-> [m EXCEPT !.scaler = FittedScaler(features),
                                !.model = UnfittedForest]]
          ELSE [raised |-> FALSE, error |-> "",
                m |-> [model |-> fit(workout_data, features),
                       scaler |-> FittedScaler(features),
                       is_trained |-> TRUE]]

\* the mapping joblib.dump writes
dump(m) == [model |-> m.model, scaler |-> m.scaler, is_trained |-> m.is_trained]

\* the file between open(filepath, 'wb') and the end of the write: it exists,
\* holds a prefix of the pickle stream, and joblib.load rejects it
TruncatedFile == [truncated |-> TRUE]

\* save() without the is_trained test
save_NoGuard(m, file) == [raised |-> FALSE, error |-> "", file |-> <<dump(m)>>]

\* save() writing a new StandardScaler in place of self.scaler
save_ScalerDropped(m, file) ==
    IF ~m.is_trained THEN [raised |-> TRUE, error |-> "ValueError", file |-> file]
    ELSE [raised |-> FALSE, error |-> "",
          file |-> <<[dump(m) EXCEPT !.scaler = NewScaler]>>]

\* SimpleRecommender.save, run to its end: [raised, error, file]
save(m, file) ==
    IF ~m.is_trained THEN [raised |-> TRUE, error |-> "ValueError", file |-> file]
    ELSE [raised |-> FALSE, error |-> "", file |-> <<dump(m)>>]

\* train_model.train_model(training_df, model_path): [trained, raised, m, file].
\* Returns None (trained FALSE) on an empty frame and on a frame whose labels
\* are all the same; otherwise trains a new SimpleRecommender and saves it.
train_model(training_df, file) ==
    IF Len(training_df) = 0
    THEN [trained |-> FALSE, raised |-> FALSE, m |-> SimpleRecommender, file |-> file]
    ELSE IF Cardinality({training_df[i].user_preference : i \in DOMAIN training_df}) < 2
    THEN [trained |-> FALSE, raised |-> FALSE, m |-> SimpleRecommender, file |-> file]
    ELSE LET t == train(SimpleRecommender, training_df)
             s == save(t.m, file)
         IN  IF t.raised THEN [trained |-> FALSE, raised |-> TRUE, m |-> t.m, file |-> file]
             ELSE [trained |-> ~s.raised, raised |-> s.raised, m |-> t.m, file |-> s.file]

\* load() with data.get('is_trained', False)
load_FlagDefaultFalse(m, file) ==
    IF Len(file) = 0 THEN [raised |-> TRUE, error |-> "FileNotFoundError", m |-> m]
    ELSE LET data == file[1] IN
      IF "truncated" \in DOMAIN data THEN [raised |-> TRUE, error |-> "unpickle", m |-> m]
      ELSE IF "model" \notin DOMAIN data THEN [raised |-> TRUE, error |-> "KeyError", m |-> m]
      ELSE IF "scaler" \notin DOMAIN data
      THEN [raised |-> TRUE, error |-> "KeyError", m |-> [m EXCEPT !.model = data.model]]
      ELSE [raised |-> FALSE, error |-> "",
            m |-> [model |-> data.model, scaler |-> data.scaler,
                   is_trained |-> Get(data, "is_trained", FALSE)]]

\* load() assigning is_trained before model and scaler: a file without
\* 'scaler' leaves a model that is flagged trained behind the KeyError
load_FlagFirst(m, file) ==
    IF Len(file) = 0 THEN [raised |-> TRUE, error |-> "FileNotFoundError", m |-> m]
    ELSE LET data == file[1] IN
      IF "truncated" \in DOMAIN data THEN [raised |-> TRUE, error |-> "unpickle", m |-> m]
      ELSE IF "model" \notin DOMAIN data
      THEN [raised |-> TRUE, error |-> "KeyError",
            m |-> [m EXCEPT !.is_trained = Get(data, "is_trained", TRUE)]]
      ELSE IF "scaler" \notin DOMAIN data
      THEN [raised |-> TRUE, error |-> "KeyError",
            m |-> [m EXCEPT !.model = data.model,
                            !.is_trained = Get(data, "is_trained", TRUE)]]
      ELSE [raised |-> FALSE, error |-> "",
            m |-> [model |-> data.model, scaler |-> data.scaler,
                   is_trained |-> Get(data, "is_trained", TRUE)]]

\* SimpleRecommender.load: [raised, error, m]; the assignments made before a
\* missing key raises KeyError stay made
load(m, file) ==
    IF Len(file) = 0 THEN [raised |-> TRUE, error |-> "FileNotFoundError", m |-> m]
    ELSE LET data == file[1] IN
      IF "truncated" \in DOMAIN data THEN [raised |-> TRUE, error |-> "unpickle", m |-> m]
      ELSE IF "model" \notin DOMAIN data THEN [raised |-> TRUE, error |-> "KeyError", m |-> m]
      ELSE IF "scaler" \notin DOMAIN data
      THEN [raised |-> TRUE, error |-> "KeyError", m |-> [m EXCEPT !.model = data.model]]
      ELSE [raised |-> FALSE, error |-> "",
            m |-> [model |-> data.model, scaler |-> data.scaler,
                   is_trained |-> Get(data, "is_trained", TRUE)]]

-----------------------------------------------------------------------------
(* Scorer: recommendation_service.py, _recommend_existing_routines *)

\* use_ml without the `self.model.model is not None` test
use_ml_TrainedFlagOnly(m) == m.is_trained

\* use_ml: hasattr(self.model, 'is_trained') holds of every SimpleRecommender
use_ml(m) == m.is_trained /\ m.model # NoneModel

\* the cardio keyword match subtracted instead of added
_calculate_rule_based_score_CardioPenalty(row, features) ==
    LET routine_name_lower == Lower(row.name)
        base == 5 * ScoreUnit
        s1 == IF Get(features, "completion_rate", 0) > 70 THEN base + ScoreUnit ELSE base
        s2 == IF Get(features, "avg_time_delta", 0) < -60 THEN s1 + ScoreUnit ELSE s1
        s3 == IF Get(features, "has_cardio", FALSE) /\ Contains(routine_name_lower, KwCardio)
              THEN s2 - ScoreUnit \div 2 ELSE s2
        s4 == IF Get(features, "has_strength", FALSE)
                 /\ \E w \in ScoreStrengthKeywords : Contains(routine_name_lower, w)
              THEN s3 + ScoreUnit \div 2 ELSE s3
    IN  s4

\* the strength bonus added once per matching keyword instead of once
_calculate_rule_based_score_PerKeyword(row, features) ==
    LET routine_name_lower == Lower(row.name)
        base == 5 * ScoreUnit
        s1 == IF Get(features, "completion_rate", 0) > 70 THEN base + ScoreUnit ELSE base
        s2 == IF Get(features, "avg_time_delta", 0) < -60 THEN s1 + ScoreUnit ELSE s1
        s3 == IF Get(features, "has_cardio", FALSE) /\ Contains(routine_name_lower, KwCardio)
              THEN s2 + ScoreUnit \div 2 ELSE s2
        n  == Cardinality({w \in ScoreStrengthKeywords : Contains(routine_name_lower, w)})
    IN  IF Get(features, "has_strength", FALSE) THEN s3 + n * (ScoreUnit \div 2) ELSE s3

\* each keyword bonus worth 1.0 where the code adds 0.5
_calculate_rule_based_score_WholeBonus(row, features) ==
    LET routine_name_lower == Lower(row.name)
        base == 5 * ScoreUnit
        s1 == IF Get(features, "completion_rate", 0) > 70 THEN base + ScoreUnit ELSE base
        s2 == IF Get(features, "avg_time_delta", 0) < -60 THEN s1 + ScoreUnit ELSE s1
        s3 == IF Get(features, "has_cardio", FALSE) /\ Contains(routine_name_lower, KwCardio)
              THEN s2 + ScoreUnit ELSE s2
        s4 == IF Get(features, "has_strength", FALSE)
                 /\ \E w \in ScoreStrengthKeywords : Contains(routine_name_lower, w)
              THEN s3 + ScoreUnit ELSE s3
    IN  s4

_calculate_rule_based_score(row, features) ==
    LET routine_name_lower == Lower(row.name)
        base == 5 * ScoreUnit
        s1 == IF Get(features, "completion_rate", 0) > 70 THEN base + ScoreUnit ELSE base
        s2 == IF Get(features, "avg_time_delta", 0) < -60 THEN s1 + ScoreUnit ELSE s1
        s3 == IF Get(features, "has_cardio", FALSE) /\ Contains(routine_name_lower, KwCardio)
              THEN s2 + ScoreUnit \div 2 ELSE s2
        s4 == IF Get(features, "has_strength", FALSE)
                 /\ \E w \in ScoreStrengthKeywords : Contains(routine_name_lower, w)
              THEN s3 + ScoreUnit \div 2 ELSE s3
    IN  s4

\* ', '.join(reasons)
RECURSIVE JoinComma(_)
JoinComma(reasons) ==
    IF Len(reasons) = 0 THEN ""
    ELSE IF Len(reasons) = 1 THEN reasons[1]
    ELSE reasons[1] \o ", " \o JoinComma(Tail(reasons))

MlReason == "ML model predicts you'll like this routine based on your workout patterns"
GenericReason == "this routine matches your current fitness level"

_generate_reasoning_for_existing_routine(routine_row, features, useml) ==
    LET routine_name == Lower(routine_row.name)
        r1 == IF Get(features, "completion_rate", 0) > 70
              THEN <<"You have a high completion rate">> ELSE <<>>
        r2 == IF Get(features, "avg_time_delta", 0) < -60
              THEN <<"you finish workouts efficiently">> ELSE <<>>
        r3 == IF Contains(routine_name, KwCardio) /\ Get(features, "has_cardio", FALSE)
              THEN <<"matches your cardio preferences">> ELSE <<>>
        r4 == IF (\E w \in ScoreStrengthKeywords : Contains(routine_name, w))
                 /\ Get(features, "has_strength", FALSE)
              THEN <<"aligns with your strength training">> ELSE <<>>
        reasons == IF useml THEN <<MlReason>> ELSE r1 \o r2 \o r3 \o r4
        final == IF Len(reasons) = 0 THEN <<GenericReason>> ELSE reasons
    IN  "Recommended because " \o JoinComma(final) \o "."

\* round(score): to the nearest integer instead of truncation
IntOf_Round(score) == (score + ScoreUnit \div 2) \div ScoreUnit

\* int(score): truncation toward zero
IntOf(score) ==
    IF score >= 0 THEN score \div ScoreUnit ELSE -((-score) \div ScoreUnit)

\* the normalisation without the clamp: int(score) alone
NormalizePriority_NoClamp(score) == IntOf(score)

\* priority = min(10, max(1, int(score)))
NormalizePriority(score) == Min(MaxPriority, Max(MinPriority, IntOf(score)))

\* schemas.ExistingRoutineRecommendation: priority: int = Field(..., ge=1, le=10);
\* the constructor raises a validation error outside that range
ExistingRoutineRecommendation(routine_id, reasoning, priority) ==
    [raised |-> ~(priority >= 1 /\ priority <= 10),
     value  |-> [routine_id |-> routine_id, reasoning |-> reasoning,
                 priority |-> priority]]

\* float(prediction[1]) if len(prediction) > 1 else 0.5
MlScore(prediction) ==
    IF Len(prediction) > 1 THEN prediction[2] ELSE ScoreUnit \div 2

\* the iteration without the try/except around predict: its exception leaves
\* the iteration
ScoreCandidate_NoCatch(m, useml, row, features) ==
    LET prediction == IF useml THEN predict(m, features)
                      ELSE [raised |-> FALSE, value |-> <<>>]
        path  == IF ~useml THEN "rule" ELSE "model"
        score == IF path = "model" THEN MlScore(prediction.value) * 10
                 ELSE _calculate_rule_based_score(row, features)
        priority  == NormalizePriority(score)
        reasoning == _generate_reasoning_for_existing_routine(row, features, useml)
        made == ExistingRoutineRecommendation(ToString(row.id), reasoning, priority)
    IN  [raised |-> prediction.raised \/ made.raised, rec |-> made.value, path |-> path,
         predicted |-> useml, score |-> score, row |-> row]

\* One iteration of `for idx, row in routines_df.iterrows()`.
\* path is "model" (score from predict), "fallback" (predict raised, rules
\* used) or "rule" (use_ml false); predicted tells whether predict was called.
ScoreCandidate(m, useml, row, features) ==
    LET prediction == IF useml THEN predict(m, features)
                      ELSE [raised |-> FALSE, value |-> <<>>]
        path  == IF ~useml THEN "rule"
                 ELSE IF prediction.raised THEN "fallback" ELSE "model"
        score == IF path = "model" THEN MlScore(prediction.value) * 10
                 ELSE _calculate_rule_based_score(row, features)
        priority  == NormalizePriority(score)
        reasoning == _generate_reasoning_for_existing_routine(row, features, useml)
        made == ExistingRoutineRecommendation(ToString(row.id), reasoning, priority)
    IN  [raised |-> made.raised, rec |-> made.value, path |-> path,
         predicted |-> useml, score |-> score, row |-> row]

\* The loop: the candidates scored, in library order; an exception that
\* leaves an iteration ends the loop
RECURSIVE ScoreLoop(_, _, _, _)
ScoreLoop(m, useml, rows, features) ==
    IF Len(rows) = 0 THEN [raised |-> FALSE, items |-> <<>>]
    ELSE LET c == ScoreCandidate(m, useml, rows[1], features) IN
         IF c.raised THEN [raised |-> TRUE, items |-> <<c>>]
         ELSE LET rest == ScoreLoop(m, useml, Tail(rows), features)
              IN  [raised |-> rest.raised, items |-> <<c>> \o rest.items]

\* list.sort(key=lambda x: x.priority, reverse=True): a stable sort, entries
\* of equal priority keep their order
InsertByPriority(sorted, x) ==
    LET k == Cardinality({i \in 1..Len(sorted) : sorted[i].priority >= x.priority})
    IN  SubSeq(sorted, 1, k) \o <<x>> \o SubSeq(sorted, k + 1, Len(sorted))

RECURSIVE SortRev(_, _)
SortRev(sorted, todo) ==
    IF Len(todo) = 0 THEN sorted
    ELSE SortRev(InsertByPriority(sorted, todo[1]), Tail(todo))

\* an ascending sort read backwards: entries of equal priority come out reversed
InsertTiesFirst(sorted, x) ==
    LET k == Cardinality({i \in 1..Len(sorted) : sorted[i].priority > x.priority})
    IN  SubSeq(sorted, 1, k) \o <<x>> \o SubSeq(sorted, k + 1, Len(sorted))

RECURSIVE SortTiesFirst(_, _)
SortTiesFirst(sorted, todo) ==
    IF Len(todo) = 0 THEN sorted
    ELSE SortTiesFirst(InsertTiesFirst(sorted, todo[1]), Tail(todo))

SortByPriority_TiesReversed(recommendations) == SortTiesFirst(<<>>, recommendations)

SortByPriority(recommendations) == SortRev(<<>>, recommendations)

\* recommendations[-n:]: the last n entries where the code returns the first n
Take_FromEnd(s, n) == SubSeq(s, Max(1, Len(s) - n + 1), Len(s))

\* s[:n]
Take(s, n) == SubSeq(s, 1, Min(n, Len(s)))

\* [raised, value, items]: value is the list returned
_recommend_existing_routines(m, rdf, features) ==
    IF Len(rdf) = 0 THEN [raised |-> FALSE, value |-> <<>>, items |-> <<>>]
    ELSE LET loop == ScoreLoop(m, use_ml(m), rdf, features)
             recommendations == [i \in 1..Len(loop.items) |-> loop.items[i].rec]
         IN  IF loop.raised
             THEN [raised |-> TRUE, value |-> <<>>, items |-> loop.items]
             ELSE [raised |-> FALSE,
                   value |-> Take(SortByPriority(recommendations), TopExisting),
                   items |-> loop.items]

-----------------------------------------------------------------------------
(* Synthesis of new routines: the template catalog and _generate_new_routines *)

Exercise(name, sets, reps, notes) ==
    [name |-> name, sets |-> sets, reps |-> reps, notes |-> notes]

_create_quick_workout_routine ==
    [name |-> "Quick 20-Minute HIIT",
     description |-> "A fast-paced workout designed to improve time efficiency and build consistency.",
     estimated_duration |-> 20,
     exercises |-> <<Exercise("Burpees", 3, 10, "Keep your back straight"),
                     Exercise("Mountain Climbers", 3, 20, "Maintain steady pace"),
                     Exercise("Jump Squats", 3, 15, "Land softly"),
                     Exercise("Plank Hold", 3, 30, "Hold for 30 seconds")>>,
     reasoning |-> "This shorter routine will help you build consistency and improve completion rates.",
     priority |-> 9]

_create_time_efficient_routine ==
    [name |-> "Time-Efficient Power Session",
     description |-> "A focused workout designed to maximize results in minimal time.",
     estimated_duration |-> 25,
     exercises |-> <<Exercise("Thrusters", 4, 8, "Full range of motion"),
                     Exercise("Kettlebell Swings", 3, 15, "Use proper form"),
                     Exercise("Box Jumps", 3, 10, "Step down safely"),
                     Exercise("Battle Ropes", 3, 30, "30 seconds on, 30 seconds rest")>>,
     reasoning |-> "This routine focuses on efficiency and will help you improve time management.",
     priority |-> 8]

_create_cardio_routine ==
    [name |-> "Cardio Endurance Builder",
     description |-> "A cardio-focused routine to improve endurance and cardiovascular fitness.",
     estimated_duration |-> 30,
     exercises |-> <<Exercise("Running", 1, 1, "20 minutes steady pace"),
                     Exercise("Jump Rope", 3, 100, "Maintain rhythm"),
                     Exercise("High Knees", 3, 30, "Lift knees to hip height"),
                     Exercise("Burpees", 3, 10, "Full movement, maintain pace")>>,
     reasoning |-> "This routine targets cardio endurance and helps build cardiovascular fitness.",
     priority |-> 8]

_create_strength_routine ==
    [name |-> "Strength Foundation Builder",
     description |-> "A strength-focused routine to build muscle and power.",
     estimated_duration |-> 35,
     exercises |-> <<Exercise("Deadlifts", 4, 6, "Keep back straight"),
                     Exercise("Bench Press", 4, 8, "Control the weight"),
                     Exercise("Squats", 4, 10, "Full depth"),
                     Exercise("Pull-ups", 3, 8, "Full range of motion")>>,
     reasoning |-> "This routine focuses on building strength and power.",
     priority |-> 8]

_create_balanced_routine ==
    [name |-> "Full Body Blast",
     description |-> "A balanced full-body workout targeting all major muscle groups.",
     estimated_duration |-> 30,
     exercises |-> <<Exercise("Burpees", 3, 10, "Full movement"),
                     Exercise("Push-ups", 3, 15, "Keep core engaged"),
                     Exercise("Squats", 3, 20, "Full depth"),
                     Exercise("Plank", 3, 45, "Hold for 45 seconds"),
                     Exercise("Mountain Climbers", 3, 20, "Steady pace")>>,
     reasoning |-> "This balanced routine provides a complete full-body workout.",
     priority |-> 7]

\* the synthesis without the final truncation
_generate_new_routines_NoTruncation(features) ==
    LET r1 == IF Get(features, "completion_rate", 0) < 50
              THEN <<_create_quick_workout_routine>> ELSE <<>>
        r2 == IF Get(features, "avg_time_delta", 0) > 120
              THEN r1 \o <<_create_time_efficient_routine>> ELSE r1
        r3 == IF ~Get(features, "has_cardio", FALSE)
              THEN r2 \o <<_create_cardio_routine>> ELSE r2
        r4 == IF ~Get(features, "has_strength", FALSE)
              THEN r3 \o <<_create_strength_routine>> ELSE r3
    IN  IF Len(r4) = 0 THEN <<_create_balanced_routine>> ELSE r4

\* the synthesis appending the balanced routine unconditionally, without the
\* `if not routines` test
_generate_new_routines_BalancedAppended(features) ==
    LET r1 == IF Get(features, "completion_rate", 0) < 50
              THEN <<_create_quick_workout_routine>> ELSE <<>>
        r2 == IF Get(features, "avg_time_delta", 0) > 120
              THEN r1 \o <<_create_time_efficient_routine>> ELSE r1
        r3 == IF ~Get(features, "has_cardio", FALSE)
              THEN r2 \o <<_create_cardio_routine>> ELSE r2
        r4 == IF ~Get(features, "has_strength", FALSE)
              THEN r3 \o <<_create_strength_routine>> ELSE r3
        routines == r4 \o <<_create_balanced_routine>>
    IN  Take(routines, TopNew)

_generate_new_routines(features) ==
    LET r1 == IF Get(features, "completion_rate", 0) < 50
              THEN <<_create_quick_workout_routine>> ELSE <<>>
        r2 == IF Get(features, "avg_time_delta", 0) > 120
              THEN r1 \o <<_create_time_efficient_routine>> ELSE r1
        r3 == IF ~Get(features, "has_cardio", FALSE)
              THEN r2 \o <<_create_cardio_routine>> ELSE r2
        r4 == IF ~Get(features, "has_strength", FALSE)
              THEN r3 \o <<_create_strength_routine>> ELSE r3
        routines == IF Len(r4) = 0 THEN <<_create_balanced_routine>> ELSE r4
    IN  Take(routines, TopNew)

-----------------------------------------------------------------------------
(* Composer: generate_recommendations *)

NoFeatures == [kind |-> "none"]

_generate_default_recommendations ==
    [status |-> "ok", existing_routines |-> <<>>,
     new_routines |-> <<_create_balanced_routine>>]

\* `workout_df is None and routines_df is None`: never true of a DataFrame
NoData_IsNone(wdf, rdf) == FALSE

\* workout_df.empty and routines_df.empty
NoData(wdf, rdf) == Len(wdf) = 0 /\ Len(rdf) = 0

\* The handler on the fetched data.  response is what the caller receives;
\* steps, features, use_ml and items record what ran on the way.
generate_recommendations(m, wdf, rdf) ==
    IF NoData(wdf, rdf)
    THEN [response |-> _generate_default_recommendations,
          steps |-> <<"fetch", "default">>,
          features |-> NoFeatures, use_ml |-> FALSE, items |-> <<>>]
    ELSE
      LET features == prepare_features_for_ml(wdf, rdf)
          existing == _recommend_existing_routines(m, rdf, features)
      IN  IF existing.raised
          THEN [response |-> [status |-> "error", existing_routines |-> <<>>,
                              new_routines |-> <<>>],
                steps |-> <<"fetch", "extract", "score">>,
                features |-> features, use_ml |-> use_ml(m), items |-> existing.items]
          ELSE [response |-> [status |-> "ok",
                              existing_routines |-> existing.value,
                              new_routines |-> _generate_new_routines(features)],
                steps |-> <<"fetch", "extract", "score", "synthesize">>,
                features |-> features, use_ml |-> use_ml(m), items |-> existing.items]

\* schemas.RecommendationRequest: user_id is a required str with no constraint
\* on its content, so every string makes a valid request
RecommendationRequest(user_id) == [raised |-> FALSE, user_id |-> user_id]

\* a handler that answers a failed fetch with the default recommendation
get_recommendations_DefaultOnFailure(m, user_id, store) ==
    IF store.failed # "none"
    THEN [response |-> _generate_default_recommendations,
          steps |-> <<"fetch", "default">>,
          features |-> NoFeatures, use_ml |-> FALSE, items |-> <<>>]
    ELSE generate_recommendations(m, store.wdf, store.rdf)

\* The try block of main.get_recommendations: generate_recommendations(user_id)
\* on what the data store answers to the two fetches (store.failed names the
\* fetch that raises, "none" when both return).  The user id goes to the
\* queries unread.  An exception of a fetch leaves generate_recommendations,
\* which has no handler for it.
get_recommendations(m, user_id, store) ==
    IF store.failed # "none"
    THEN [response |-> [status |-> "error", existing_routines |-> <<>>,
                        new_routines |-> <<>>],
          steps |-> <<"fetch">>,
          features |-> NoFeatures, use_ml |-> FALSE, items |-> <<>>]
    ELSE generate_recommendations(m, store.wdf, store.rdf)

\* the fetches a request attempted: the second is not reached when the first
\* raises
Fetches(failed) ==
    IF failed = "workouts" THEN <<"workouts">> ELSE <<"workouts", "routines">>

\* The status main.get_recommendations answers with: 200 with the response,
\* 400 from `except ValueError` (pydantic's ValidationError is a ValueError),
\* 500 from `except Exception` (an exception of a fetch)
HttpStatus(failed, response) ==
    IF failed # "none" THEN 500
    ELSE IF response.status = "ok" THEN 200 ELSE 400

\* RecommendationService.__init__: a fresh SimpleRecommender, loaded from the
\* artifact when the file exists; any exception of load is swallowed
ServiceModel(file) ==
    IF Len(file) # 0 THEN load(SimpleRecommender, file).m ELSE SimpleRecommender

-----------------------------------------------------------------------------
(* Inputs: what the data store and the artifact store can hold *)

NameCardioWeights == <<"C","a","r","d","i","o"," ","W","e","i","g","h","t","s">>
NameHiit          == <<"H","i","i","t">>
NameWod           == <<"w","o","d">>
NameCardio        == <<"c","a","r","d","i","o">>
NameCardioUpper   == <<"C","A","R","D","I","O">>
NameStrength      == <<"s","t","r","e","n","g","t","h">>
NameWeights       == <<"W","e","i","g","h","t","s">>
NameAll           == <<"c","a","r","d","i","o"," ","s","t","r","e","n","g","t","h",
                       " ","w","e","i","g","h","t">>
NamePower         == <<"p","o","w","e","r">>

\* routine names of the libraries a request fetches
LibNames == {NameCardioWeights, NameHiit, NameWod}

\* the routine row at position i of a library: routines.id is the primary key
Row(i, name) == [id |-> i, name |-> name]

RoutineLibraries ==
    UNION {{[i \in 1..n |-> Row(i, f[i])] : f \in [1..n -> LibNames]} : n \in 0..MaxRoutines}

\* a row of fetch_user_workout_data: every row of a user carries the same
\* per-user aggregates (the window functions of the query); durations are
\* seconds, estimated_duration minutes
WorkoutRow(completed, final_duration, estimated_duration, rate, delta, total, done) ==
    [completed |-> completed, final_duration |-> final_duration,
     estimated_duration |-> estimated_duration,
     completion_rate |-> rate, avg_time_delta |-> delta,
     total_workouts |-> total, completed_workouts |-> done]

\* 4 of 5 workouts completed, each 90 s under its estimate
HistoryGood ==
    LET done == WorkoutRow(TRUE, <<1110>>, 20, <<80>>, <<-90>>, <<5>>, <<4>>)
        skip == WorkoutRow(FALSE, <<>>, 20, <<80>>, <<-90>>, <<5>>, <<4>>)
    IN  <<done, skip, done, done, done>>
\* 1 of 3 workouts completed (0.33), 150 s over its estimate
HistoryPoor ==
    LET done == WorkoutRow(TRUE, <<1350>>, 20, <<33>>, <<150>>, <<3>>, <<1>>)
        skip == WorkoutRow(FALSE, <<>>, 20, <<33>>, <<150>>, <<3>>, <<1>>)
    IN  <<skip, done, skip>>
\* one scheduled workout, not done: the average time delta is NULL
HistoryNone ==
    <<WorkoutRow(FALSE, <<>>, 20, <<0>>, <<>>, <<1>>, <<0>>)>>

WorkoutHistories == { <<>>, HistoryGood, HistoryPoor, HistoryNone }

AllFeatureNames == DOMAIN DefaultFeatures

\* what train() on the two training columns and save() write
ArtTrained ==
    [model |-> Forest(2, 2, 2000, 9000), scaler |-> FittedScaler(TrainFeatureNames),
     is_trained |-> TRUE]
\* a training frame with the optional routine type column
FrameTyped ==
    << [completion_rate |-> <<80>>, avg_time_delta |-> <<-90>>,
        routine_type_encoded |-> <<1>>, user_preference |-> <<1>>],
       [completion_rate |-> <<33>>, avg_time_delta |-> <<150>>,
        routine_type_encoded |-> <<0>>, user_preference |-> <<0>>] >>
\* what train() on a frame with the routine type column and save() write
ArtTyped == dump(train(SimpleRecommender, FrameTyped).m)
\* artifacts fitted elsewhere on the seven features the service passes
ArtFull(p_lo, p_hi) ==
    [model |-> Forest(7, 2, p_lo, p_hi), scaler |-> FittedScaler(AllFeatureNames),
     is_trained |-> TRUE]
ArtOneClass ==
    [model |-> Forest(7, 1, 0, 0), scaler |-> FittedScaler(AllFeatureNames),
     is_trained |-> TRUE]
\* a legacy artifact: no is_trained entry
ArtLegacy ==
    [model |-> Forest(7, 2, 1999, 5999), scaler |-> FittedScaler(AllFeatureNames)]
\* an artifact without the scaler entry: load raises KeyError part-way
ArtNoScaler == [model |-> Forest(7, 2, 1999, 5999)]
\* an artifact whose model entry is None
ArtNoneModel ==
    [model |-> NoneModel, scaler |-> FittedScaler(AllFeatureNames), is_trained |-> TRUE]

Artifacts ==
    { <<>>, <<ArtTrained>>, <<ArtFull(500, ScoreUnit)>>, <<ArtOneClass>>, <<ArtLegacy>>,
      <<ArtNoScaler>>, <<ArtNoneModel>>, <<TruncatedFile>>, <<ArtTyped>> }

\* user ids a request can carry: the id of a user (the users' ids are UUIDs),
\* the empty string and a string that is no UUID
UserUuid == "123e4567-e89b-12d3-a456-426614174000"
UserIds == {UserUuid, "", "not-an-id"}

\* What the data store answers to fetch_user_workout_data(user_id) and
\* fetch_user_routines(user_id).  For the id of a user: any history and
\* library, or a query that raises (the store is down).  No row has a user id
\* that is no UUID: for such an id both queries return no rows where the
\* column compares as text, and the first query raises where the column is
\* of type uuid; the schema is not part of this code, so either can happen.
\* FetchFailures: the fetch that raises, "none" when both return.
FetchFailures(user_id) ==
    IF user_id = UserUuid THEN {"none", "workouts", "routines"}
    ELSE {"none", "workouts"}
FetchedHistories(user_id, failed) ==
    IF user_id = UserUuid /\ failed \in {"none", "routines"} THEN WorkoutHistories
    ELSE {<<>>}
FetchedLibraries(user_id, failed) ==
    IF user_id = UserUuid /\ failed = "none" THEN RoutineLibraries ELSE {<<>>}

None == [kind |-> "none"]

-----------------------------------------------------------------------------
(* The service: construction, one request at a time, the response returned *)

Init ==
    /\ pc = "start"
    /\ model = SimpleRecommender
    /\ artifact \in Artifacts
    /\ workout_df = <<>>
    /\ routines_df = <<>>
    /\ resp = None
    /\ trace = None
    /\ fnArgs = None
    /\ fnOut = None
    /\ fresh = None

\* RecommendationService.__init__
ServiceInit ==
    /\ pc = "start"
    /\ model' = ServiceModel(artifact)
    /\ pc' = "idle"
    /\ UNCHANGED <<artifact, workout_df, routines_df, resp, trace, fnArgs, fnOut, fresh>>

\* POST /recommendations with a user id: the two fetches and the handler.
\* pc is "responded" when both fetches returned and the handler ran on what
\* they gave, "failed" when a fetch raised.
GenerateRecommendations ==
    /\ pc = "idle"
    /\ \E user_id \in {RecommendationRequest(u).user_id : u \in UserIds} :
         \E failed \in FetchFailures(user_id) :
         \E wdf \in FetchedHistories(user_id, failed),
            rdf \in FetchedLibraries(user_id, failed) :
           \E out \in {get_recommendations(model, user_id,
                            [failed |-> failed, wdf |-> wdf, rdf |-> rdf])} :
             /\ workout_df' = wdf
             /\ routines_df' = rdf
             /\ resp' = out.response
             /\ trace' = [kind |-> "request", steps |-> out.steps,
                          features |-> out.features,
                          use_ml |-> out.use_ml, items |-> out.items,
                          user_id |-> user_id,
                          http |-> HttpStatus(failed, out.response),
                          fetches |-> Fetches(failed)]
             /\ pc' = IF failed = "none" THEN "responded" ELSE "failed"
    /\ UNCHANGED <<model, artifact, fnArgs, fnOut, fresh>>

\* the caller has the response; the service waits for the next request
Return ==
    /\ pc \in {"responded", "failed"}
    /\ pc' = "idle"
    /\ workout_df' = <<>>
    /\ routines_df' = <<>>
    /\ resp' = None
    /\ trace' = None
    /\ UNCHANGED <<model, artifact, fnArgs, fnOut, fresh>>

Next == ServiceInit \/ GenerateRecommendations \/ Return

Spec == Init /\ [][Next]_vars

-----------------------------------------------------------------------------
(* The scorer's functions called directly, on inputs drawn from bounded sets *)

FnNames ==
    {NameCardio, NameCardioUpper, NameStrength, NameWeights, NameCardioWeights,
     NameAll, NameHiit, NamePower, NameWod}

FnFeatures ==
    {[completion_rate |-> c, avg_time_delta |-> d, total_workouts |-> 4,
      completed_workouts |-> 2, has_cardio |-> hc, has_strength |-> hs,
      avg_duration |-> 2500] :
        c \in {30, 50, 70, 71, 80}, d \in {-90, -61, -60, 0, 120, 121, 150},
        hc \in BOOLEAN, hs \in BOOLEAN}

\* p_liked of the fitted models, in 1/ScoreUnit
PLiked == {0, 500, 1000, 1999, 2000, 5000, 5999, 6000, 9999, ScoreUnit}

\* the model states a service can hold after construction
FnModels ==
    {ServiceModel(f) : f \in Artifacts \cup {<<ArtFull(p, ScoreUnit - p)>> : p \in PLiked}}

InitFn ==
    /\ pc = "fn"
    /\ model = SimpleRecommender
    /\ artifact = <<>>
    /\ workout_df = <<>>
    /\ routines_df = <<>>
    /\ resp = None
    /\ trace = None
    /\ fnArgs \in {[kind |-> "args", features |-> f, row |-> Row(1, n)] :
                      f \in FnFeatures, n \in FnNames}
    /\ fnOut = None
    /\ fresh = None

\* _calculate_rule_based_score and the rule path of the scorer on the row and
\* on a second row of the same library
CallRulePath ==
    /\ pc = "fn" /\ fnOut = None
    /\ \E n \in FnNames :
         LET other == Row(2, n) IN
         fnOut' = [kind |-> "rule",
                   score |-> _calculate_rule_based_score(fnArgs.row, fnArgs.features),
                   cand  |-> ScoreCandidate(SimpleRecommender, FALSE, fnArgs.row,
                                            fnArgs.features),
                   other |-> other,
                   other_score |-> _calculate_rule_based_score(other, fnArgs.features),
                   other_cand  |-> ScoreCandidate(SimpleRecommender, FALSE, other,
                                                  fnArgs.features)]
    /\ UNCHANGED <<pc, model, artifact, workout_df, routines_df, resp, trace, fnArgs, fresh>>

\* one candidate scored under a model state
CallScoreCandidate ==
    /\ pc = "fn" /\ fnOut = None
    /\ \E m \in FnModels :
         fnOut' = [kind |-> "candidate", m |-> m,
                   cand |-> ScoreCandidate(m, use_ml(m), fnArgs.row, fnArgs.features)]
    /\ UNCHANGED <<pc, model, artifact, workout_df, routines_df, resp, trace, fnArgs, fresh>>

CallGenerateNewRoutines ==
    /\ pc = "fn" /\ fnOut = None
    /\ fnOut' = [kind |-> "new", value |-> _generate_new_routines(fnArgs.features)]
    /\ UNCHANGED <<pc, model, artifact, workout_df, routines_df, resp, trace, fnArgs, fresh>>

NextFn == CallRulePath \/ CallScoreCandidate \/ CallGenerateNewRoutines

SpecFn == InitFn /\ [][NextFn]_vars

-----------------------------------------------------------------------------
(* The life of one SimpleRecommender: train, predict, save and load called in *)
(* any order on the model, against one file path                              *)

\* training frames: TrainRow is a row of the frame train_model.py prepares
TrainRow(rate, delta, label) ==
    [completion_rate |-> rate, avg_time_delta |-> delta, user_preference |-> label]
FrameBoth ==
    << TrainRow(<<80>>, <<-90>>, <<1>>), TrainRow(<<80>>, <<-90>>, <<1>>),
       TrainRow(<<80>>, <<-90>>, <<0>>), TrainRow(<<33>>, <<150>>, <<0>>) >>
FrameOneClass ==
    << TrainRow(<<80>>, <<-90>>, <<1>>), TrainRow(<<33>>, <<150>>, <<1>>) >>
FrameNoLabel == << [completion_rate |-> <<80>>, avg_time_delta |-> <<-90>>] >>
FrameNaNLabel ==
    << TrainRow(<<80>>, <<-90>>, <<1>>), TrainRow(<<33>>, <<150>>, <<>>) >>
FrameText ==
    << TrainRow(<<80>>, <<-90>>, <<1>>), TrainRow(TextCell, <<150>>, <<0>>) >>
TrainingFrames ==
    { <<>>, FrameBoth, FrameOneClass, FrameTyped, FrameNoLabel, FrameNaNLabel, FrameText }

\* feature mappings handed to predict: the training columns, the training
\* columns with the routine type, the mapping the service passes, and a
\* mapping with none of the feature names
PredictInputs ==
    { [completion_rate |-> 80, avg_time_delta |-> -90],
      [completion_rate |-> 33, avg_time_delta |-> 150],
      [completion_rate |-> 80, avg_time_delta |-> -90, routine_type_encoded |-> 1],
      [DefaultFeatures EXCEPT !.completion_rate = 80],
      [weight |-> 70] }

\* the files the path can hold before the first call
LifeArtifacts ==
    { <<>>, <<ArtFull(500, ScoreUnit)>>, <<ArtLegacy>>, <<ArtNoScaler>>, <<ArtNoneModel>> }

\* ghost: the model state whose save() wrote the file the path holds now;
\* NoWriter when the file was not written by a save() of this run
NoWriter == [kind |-> "none"]
Writer == IF trace.kind = "call" THEN trace.writer ELSE NoWriter

\* ghost: the call in progress or the last call made
Call(op, arg) ==
    [kind |-> "call", op |-> op, arg |-> arg, before |-> model,
     file_before |-> artifact, writer |-> Writer]
Result(op, raised, error, value) ==
    [kind |-> "result", op |-> op, raised |-> raised, error |-> error, value |-> value]

InitLife ==
    /\ pc = "life"
    /\ model = SimpleRecommender
    /\ artifact \in LifeArtifacts
    /\ workout_df = <<>>
    /\ routines_df = <<>>
    /\ resp = None
    /\ trace = None
    /\ fnArgs = None
    /\ fnOut = None
    /\ fresh = None

\* model.train(workout_data)
Train ==
    /\ pc = "life"
    /\ \E workout_data \in TrainingFrames :
         \E r \in {train(model, workout_data)} :
           /\ model' = r.m
           /\ resp' = Result("train", r.raised, r.error, <<>>)
           /\ trace' = Call("train", workout_data)
    /\ UNCHANGED <<pc, artifact, workout_df, routines_df, fnArgs, fnOut, fresh>>

\* model.predict(user_features)
Predict ==
    /\ pc = "life"
    /\ \E user_features \in PredictInputs :
         \E r \in {predict(model, user_features)} :
           /\ resp' = Result("predict", r.raised, "", r.value)
           /\ trace' = Call("predict", user_features)
    /\ UNCHANGED <<pc, model, artifact, workout_df, routines_df, fnArgs, fnOut, fresh>>

\* model.save(path) up to open(path, 'wb'): the is_trained test raises before
\* anything is touched; past it the directory exists and the file is opened
\* for writing, which empties it
SaveOpen ==
    /\ pc = "life"
    /\ \E r \in {save(model, artifact)} :
         IF r.raised
         THEN /\ resp' = Result("save", TRUE, r.error, <<>>)
              /\ trace' = Call("save", <<>>)
              /\ UNCHANGED <<pc, artifact>>
         ELSE /\ resp' = [kind |-> "pending", op |-> "save"]
              /\ trace' = [Call("save", <<>>) EXCEPT !.writer = NoWriter]
              /\ artifact' = <<TruncatedFile>>
              /\ pc' = "saving"
    /\ UNCHANGED <<model, workout_df, routines_df, fnArgs, fnOut, fresh>>

\* joblib.dump writes the mapping to its end and save returns
SaveWrite ==
    /\ pc = "saving"
    /\ artifact' = save(model, trace.file_before).file
    /\ resp' = Result("save", FALSE, "", <<>>)
    /\ trace' = [trace EXCEPT !.writer = model]
    /\ pc' = "life"
    /\ UNCHANGED <<model, workout_df, routines_df, fnArgs, fnOut, fresh>>

\* the write stops part-way (the disk is full, the device fails): joblib.dump
\* raises OSError and the file stays as far as it was written
SaveInterrupted ==
    /\ pc = "saving"
    /\ resp' = Result("save", TRUE, "OSError", <<>>)
    /\ pc' = "life"
    /\ UNCHANGED <<model, artifact, workout_df, routines_df, trace, fnArgs, fnOut, fresh>>

\* model.load(path)
Load ==
    /\ pc = "life"
    /\ \E r \in {load(model, artifact)} :
         /\ model' = r.m
         /\ resp' = Result("load", r.raised, r.error, <<>>)
    /\ trace' = Call("load", <<>>)
    /\ UNCHANGED <<pc, artifact, workout_df, routines_df, fnArgs, fnOut, fresh>>

\* fresh = SimpleRecommender(); fresh.load(path)
LoadFresh ==
    /\ pc = "life"
    /\ \E r \in {load(SimpleRecommender, artifact)} :
         /\ fresh' = r.m
         /\ resp' = Result("load_fresh", r.raised, r.error, <<>>)
    /\ trace' = Call("load_fresh", <<>>)
    /\ UNCHANGED <<pc, model, artifact, workout_df, routines_df, fnArgs, fnOut>>

\* one run of scripts/train_model.py on a prepared frame: it trains a model of
\* its own and saves it to the path
ScriptFrames == { <<>>, FrameBoth, FrameOneClass }
TrainModel ==
    /\ pc = "life"
    /\ \E training_df \in ScriptFrames :
         \E r \in {train_model(training_df, artifact)} :
           /\ artifact' = r.file
           /\ resp' = Result("train_model", r.raised, "", r.trained)
           /\ trace' = [Call("train_model", training_df) EXCEPT
                            !.writer = IF r.trained THEN r.m ELSE @]
    /\ UNCHANGED <<pc, model, workout_df, routines_df, fnArgs, fnOut, fresh>>

NextLife ==
    \/ Train \/ Predict \/ SaveOpen \/ SaveWrite \/ SaveInterrupted \/ Load \/ LoadFresh
    \/ TrainModel

SpecLife == InitLife /\ [][NextLife]_vars

\* the lifecycle on a path that holds no file before the first call: every
\* file a load reads was written by save
InitOwn == InitLife /\ artifact = <<>>

SpecOwn == InitOwn /\ [][NextLife]_vars

-----------------------------------------------------------------------------
(* The feature extractor called directly on a history and a library *)

\* longest library handed to the extractor
MaxFeatLib == 2

NameCar       == <<"C","a","r">>
NameDio       == <<"d","i","o">>
NameRunning   == <<"R","u","n","n","i","n","g"," ","5","k">>
NameEndurance == <<"e","n","d","u","r","a","n","c","e">>
NameLifting   == <<"U","p","l","i","f","t","i","n","g">>

FeatNames ==
    { NameCardioWeights, NameHiit, NameWod, NameCardioUpper, NameStrength, NamePower,
      NameCar, NameDio, NameRunning, NameEndurance, NameLifting }

FeatLibraries ==
    UNION {{[i \in 1..n |-> Row(i, f[i])] : f \in [1..n -> FeatNames]} : n \in 0..MaxFeatLib}

InitFeat ==
    /\ pc = "feat"
    /\ model = SimpleRecommender
    /\ artifact = <<>>
    /\ workout_df \in WorkoutHistories
    /\ routines_df \in FeatLibraries
    /\ resp = None
    /\ trace = None
    /\ fnArgs = None
    /\ fnOut = None
    /\ fresh = None

\* features = prepare_features_for_ml(workout_df, routines_df)
CallPrepareFeatures ==
    /\ pc = "feat" /\ fnOut = None
    /\ fnOut' = [kind |-> "features",
                 value |-> prepare_features_for_ml(workout_df, routines_df)]
    /\ UNCHANGED <<pc, model, artifact, workout_df, routines_df, resp, trace, fnArgs, fresh>>

NextFeat == CallPrepareFeatures

SpecFeat == InitFeat /\ [][NextFeat]_vars

-----------------------------------------------------------------------------
(* Requests in flight together on one service: each request runs the steps of *)
(* generate_recommendations, and the steps of different requests interleave   *)

\* longest library a request in flight fetches
MaxConcLib == 2

Requests == {"a", "b"}

ConcHistories == { <<>>, HistoryGood }
ConcLibraries ==
    UNION {{[i \in 1..n |-> Row(i, f[i])] : f \in [1..n -> {NameCardioWeights, NameWod}]} :
              n \in 0..MaxConcLib}
\* no file, a model that predicts, a model whose predict raises
ConcArtifacts == { <<>>, <<ArtFull(500, ScoreUnit)>>, <<ArtTrained>> }

\* the locals of one call of generate_recommendations
NewRequest ==
    [phase |-> "new", failed |-> "none", wdf |-> <<>>, rdf |-> <<>>,
     features |-> NoFeatures, use_ml |-> FALSE, idx |-> 0, recommendations |-> <<>>,
     existing |-> <<>>]

ErrorResponse == [status |-> "error", existing_routines |-> <<>>, new_routines |-> <<>>]

InitConc ==
    /\ pc = "conc"
    /\ artifact \in ConcArtifacts
    /\ model = ServiceModel(artifact)
    /\ workout_df = <<>>
    /\ routines_df = <<>>
    /\ resp = [r \in Requests |-> None]
    /\ trace = [r \in Requests |-> NewRequest]
    /\ fnArgs = None
    /\ fnOut = None
    /\ fresh = None

\* lines 64-65: the two fetches of request r
ConcFetch(r) ==
    /\ trace[r].phase = "new"
    /\ \E failed \in FetchFailures(UserUuid) :
       \E wdf \in IF failed = "workouts" THEN {<<>>} ELSE ConcHistories,
          rdf \in IF failed = "none" THEN ConcLibraries ELSE {<<>>} :
         /\ trace' = [trace EXCEPT ![r] =
                [@ EXCEPT !.phase = IF failed = "none" THEN "fetched" ELSE "done",
                          !.failed = failed, !.wdf = wdf, !.rdf = rdf]]
         /\ resp' = IF failed = "none" THEN resp ELSE [resp EXCEPT ![r] = ErrorResponse]
    /\ UNCHANGED <<pc, model, artifact, workout_df, routines_df, fnArgs, fnOut, fresh>>

\* lines 67-73: the default response, or the features
ConcPrepare(r) ==
    /\ trace[r].phase = "fetched"
    /\ IF NoData(trace[r].wdf, trace[r].rdf)
       THEN /\ resp' = [resp EXCEPT ![r] = _generate_default_recommendations]
            /\ trace' = [trace EXCEPT ![r].phase = "done"]
       ELSE /\ trace' = [trace EXCEPT ![r] =
                   [@ EXCEPT !.phase = "extracted",
                             !.features = prepare_features_for_ml(trace[r].wdf,
                                                                  trace[r].rdf)]]
            /\ UNCHANGED resp
    /\ UNCHANGED <<pc, model, artifact, workout_df, routines_df, fnArgs, fnOut, fresh>>

\* lines 110-117: the empty-library return, or use_ml read from the model
ConcBeginScore(r) ==
    /\ trace[r].phase = "extracted"
    /\ trace' = [trace EXCEPT ![r] =
           IF Len(trace[r].rdf) = 0 THEN [@ EXCEPT !.phase = "scored"]
           ELSE [@ EXCEPT !.phase = "scoring", !.use_ml = use_ml(model), !.idx = 1]]
    /\ UNCHANGED <<pc, model, artifact, workout_df, routines_df, resp, fnArgs, fnOut, fresh>>

\* lines 119-152: one iteration of the loop; predict runs on the shared model
ConcScoreOne(r) ==
    /\ trace[r].phase = "scoring" /\ trace[r].idx <= Len(trace[r].rdf)
    /\ \E c \in {ScoreCandidate(model, trace[r].use_ml, trace[r].rdf[trace[r].idx],
                                trace[r].features)} :
         IF c.raised
         THEN /\ resp' = [resp EXCEPT ![r] = ErrorResponse]
              /\ trace' = [trace EXCEPT ![r].phase = "done"]
         ELSE /\ trace' = [trace EXCEPT ![r] =
                     [@ EXCEPT !.idx = @ + 1,
                               !.recommendations = Append(@, c.rec)]]
              /\ UNCHANGED resp
    /\ model' = IF trace[r].use_ml THEN predict_state(model, trace[r].features) ELSE model
    /\ UNCHANGED <<pc, artifact, workout_df, routines_df, fnArgs, fnOut, fresh>>

\* lines 155-157: the sort and the truncation
ConcRank(r) ==
    /\ trace[r].phase = "scoring" /\ trace[r].idx > Len(trace[r].rdf)
    /\ trace' = [trace EXCEPT ![r] =
           [@ EXCEPT !.phase = "scored",
                     !.existing = Take(SortByPriority(trace[r].recommendations),
                                       TopExisting)]]
    /\ UNCHANGED <<pc, model, artifact, workout_df, routines_df, resp, fnArgs, fnOut, fresh>>

\* lines 90-98: the synthesis and the response
ConcSynthesize(r) ==
    /\ trace[r].phase = "scored"
    /\ resp' = [resp EXCEPT ![r] =
           [status |-> "ok", existing_routines |-> trace[r].existing,
            new_routines |-> _generate_new_routines(trace[r].features)]]
    /\ trace' = [trace EXCEPT ![r].phase = "done"]
    /\ UNCHANGED <<pc, model, artifact, workout_df, routines_df, fnArgs, fnOut, fresh>>

NextConc ==
    \E r \in Requests :
        \/ ConcFetch(r) \/ ConcPrepare(r) \/ ConcBeginScore(r)
        \/ ConcScoreOne(r) \/ ConcRank(r) \/ ConcSynthesize(r)

SpecConc == InitConc /\ [][NextConc]_vars

-----------------------------------------------------------------------------
(* Properties *)

Responded == pc = "responded"
Ind(b) == IF b THEN 1 ELSE 0

\* C1: whenever the handler scores a non-empty library, under every model
\* state, the scoring returns (no candidate raises) and every recommendation
\* made and every recommendation returned has an integer priority p with
\* 1 <= p <= 10.
C1_PriorityInRange ==
    (Responded /\ Len(routines_df) > 0) =>
        /\ resp.status = "ok"
        /\ Len(trace.items) = Len(routines_df)
        /\ \A i \in 1..Len(trace.items) :
             /\ trace.items[i].rec.priority \in Int
             /\ trace.items[i].rec.priority >= 1
             /\ trace.items[i].rec.priority <= 10
        /\ \A i \in 1..Len(resp.existing_routines) :
             resp.existing_routines[i].priority \in 1..10

\* a model score below 1.0 was clamped up to priority 1
C1_Witness ==
    /\ Responded
    /\ \E i \in 1..Len(trace.items) :
         /\ trace.items[i].path = "model"
         /\ trace.items[i].score < ScoreUnit
         /\ trace.items[i].rec.priority = 1

\* position in the library of the routine an entry recommends
LibPos(entry) ==
    CHOOSE k \in 1..Len(routines_df) : ToString(routines_df[k].id) = entry.routine_id

\* C2: the existing-recommendation list is the scored candidates sorted by
\* priority descending and cut to 5: it has min(5, n) entries, each a scored
\* candidate of a distinct routine, non-increasing in priority; entries of
\* equal priority are in library order; no routine left out has a priority
\* greater than a routine in the list.
C2_SortedStableTop5 ==
    (Responded /\ resp.status = "ok" /\ Len(routines_df) > 0) =>
      LET E == resp.existing_routines
          items == trace.items
      IN  /\ Len(E) <= 5
          /\ Len(E) = Min(5, Len(routines_df))
          /\ \A i \in 1..Len(E) :
               \E k \in 1..Len(items) : items[k].rec = E[i]
          /\ \A i, j \in 1..Len(E) :
               i < j => /\ E[i].priority >= E[j].priority
                        /\ E[i].routine_id # E[j].routine_id
                        /\ (E[i].priority = E[j].priority => LibPos(E[i]) < LibPos(E[j]))
          /\ \A k \in 1..Len(items) :
               (\A i \in 1..Len(E) : E[i].routine_id # items[k].rec.routine_id)
                  => \A i \in 1..Len(E) : items[k].rec.priority <= E[i].priority

\* more than five candidates of two priorities: a later routine sorted ahead
\* of the first of the library, ties behind it, and a routine left out
C2_Witness ==
    /\ Responded /\ resp.status = "ok"
    /\ Len(routines_df) > 5
    /\ Len(resp.existing_routines) = 5
    /\ resp.existing_routines[1].routine_id # "1"
    /\ resp.existing_routines[2].routine_id = "1"
    /\ resp.existing_routines[1].priority > resp.existing_routines[2].priority
    /\ resp.existing_routines[4].priority = resp.existing_routines[5].priority

\* the catalog entries by name and priority
ClaimQuick     == <<"Quick 20-Minute HIIT", 9>>
ClaimEfficient == <<"Time-Efficient Power Session", 8>>
ClaimCardio    == <<"Cardio Endurance Builder", 8>>
ClaimStrength  == <<"Strength Foundation Builder", 8>>
ClaimBalanced  == <<"Full Body Blast", 7>>

ClaimNewSequence(f) ==
    (IF f.completion_rate < 50 THEN <<ClaimQuick>> ELSE <<>>)
    \o (IF f.avg_time_delta > 120 THEN <<ClaimEfficient>> ELSE <<>>)
    \o (IF ~f.has_cardio THEN <<ClaimCardio>> ELSE <<>>)
    \o (IF ~f.has_strength THEN <<ClaimStrength>> ELSE <<>>)

NamePriority(routines) ==
    [i \in 1..Len(routines) |-> <<routines[i].name, routines[i].priority>>]

\* C3: the new-recommendation list is the first 3 elements of
\* [quick(9) if completion_rate < 0.5, time-efficient(8) if avg_time_delta > 120,
\*  cardio(8) if not has_cardio, strength(8) if not has_strength], in that
\* order, and exactly [balanced(7)] when no condition holds; its length never
\* exceeds 3; completion_rate 0.3, avg_time_delta 150 and both flags true
\* give [quick(9), time-efficient(8)].
C3_NewRoutines ==
    fnOut.kind = "new" =>
      LET f == fnArgs.features
          seq == ClaimNewSequence(f)
          got == NamePriority(fnOut.value)
      IN  /\ Len(got) <= 3
          /\ (Len(seq) = 0 => got = <<ClaimBalanced>>)
          /\ (Len(seq) > 0 => got = [i \in 1..(IF Len(seq) < 3 THEN Len(seq) ELSE 3) |-> seq[i]])
          /\ (f.completion_rate = 30 /\ f.avg_time_delta = 150 /\ f.has_cardio /\ f.has_strength
                => got = <<ClaimQuick, ClaimEfficient>>)

\* all four conditions hold and the list was cut to three
C3_Witness ==
    /\ fnOut.kind = "new"
    /\ fnArgs.features.completion_rate < 50 /\ fnArgs.features.avg_time_delta > 120
    /\ ~fnArgs.features.has_cardio /\ ~fnArgs.features.has_strength
    /\ NamePriority(fnOut.value) = <<ClaimQuick, ClaimEfficient, ClaimCardio>>

\* C4: when both fetches return empty collections the response is
\* existing_routines = [] and new_routines = [balanced full-body, priority 7],
\* produced without feature extraction, scoring or synthesis, under every
\* model state.
C4_DefaultWhenNoData ==
    (Responded /\ Len(workout_df) = 0 /\ Len(routines_df) = 0) =>
        /\ resp.status = "ok"
        /\ resp.existing_routines = <<>>
        /\ NamePriority(resp.new_routines) = <<ClaimBalanced>>
        /\ trace.steps = <<"fetch", "default">>
        /\ trace.features = NoFeatures
        /\ trace.items = <<>>

\* the default response given by a service that holds a trained model
C4_Witness ==
    /\ Responded /\ Len(workout_df) = 0 /\ Len(routines_df) = 0
    /\ model.is_trained /\ model.model # NoneModel
    /\ NamePriority(resp.new_routines) = <<ClaimBalanced>>

\* what the claim calls "name contains w"
NameHas(row, w) == Contains(Lower(row.name), w)

\* C5: the rule-based score is 5.0 + 1.0*[completion_rate > 0.7]
\* + 1.0*[avg_time_delta < -60] + 0.5*[has_cardio and name contains "cardio"]
\* + 0.5*[has_strength and name contains "strength" or "weight"], each bonus
\* once, never less than 5.0; completion_rate 0.8, avg_time_delta -90 and no
\* keyword bonus give 7.  (The name is matched lower-cased, as the code does.)
C5_RuleScore ==
    fnOut.kind = "rule" =>
      LET f == fnArgs.features
          row == fnArgs.row
          cardio == f.has_cardio /\ NameHas(row, KwCardio)
          strength == f.has_strength /\ (NameHas(row, KwStrength) \/ NameHas(row, KwWeight))
      IN  /\ 2 * fnOut.score = 10 * ScoreUnit + 2 * ScoreUnit * Ind(f.completion_rate > 70)
                                + 2 * ScoreUnit * Ind(f.avg_time_delta < -60)
                                + ScoreUnit * Ind(cardio) + ScoreUnit * Ind(strength)
          /\ fnOut.score >= 5 * ScoreUnit
          /\ (f.completion_rate = 80 /\ f.avg_time_delta = -90 /\ ~cardio /\ ~strength
                => fnOut.score = 7 * ScoreUnit)

\* scenario A: 0.8, -90, no keyword bonus, score 7
C5_Witness ==
    /\ fnOut.kind = "rule"
    /\ fnArgs.features.completion_rate = 80 /\ fnArgs.features.avg_time_delta = -90
    /\ fnArgs.features.has_strength /\ ~NameHas(fnArgs.row, KwStrength)
    /\ ~NameHas(fnArgs.row, KwWeight) /\ ~NameHas(fnArgs.row, KwCardio)
    /\ fnOut.score = 7 * ScoreUnit

\* the integer part of a score, toward zero
ClaimTrunc(x) ==
    CHOOSE n \in -20..20 :
        IF x >= 0 THEN n * ScoreUnit <= x /\ x < (n + 1) * ScoreUnit
        ELSE (n - 1) * ScoreUnit < x /\ x <= n * ScoreUnit

ClaimClamp(n) == IF n < 1 THEN 1 ELSE IF n > 10 THEN 10 ELSE n

\* C6: a candidate's priority is min(10, max(1, trunc(score))), trunc toward
\* zero; score is p_liked * 10 when the model is used and predict returns,
\* p_liked being element 1 of the output and 0.5 when the output has fewer
\* than two elements, and the rule-based score otherwise; 5.999 gives 5,
\* p_liked below 0.2 gives 1, a one-element output gives 5.
C6_TruncateAndClamp ==
    fnOut.kind = "candidate" =>
      LET c == fnOut.cand
          f == fnArgs.features
          out == predict(fnOut.m, f)
          onModel == fnOut.m.is_trained /\ fnOut.m.model # NoneModel /\ ~out.raised
          p_liked == IF Len(out.value) >= 2 THEN out.value[2] ELSE ScoreUnit \div 2
          score == IF onModel THEN 10 * p_liked
                   ELSE _calculate_rule_based_score(fnArgs.row, f)
      IN  /\ ~c.raised
          /\ c.score = score
          /\ c.rec.priority = ClaimClamp(ClaimTrunc(score))
          /\ (score = 59990 => c.rec.priority = 5)
          /\ (onModel /\ Len(out.value) >= 2 /\ 10 * p_liked < 2 * ScoreUnit
                => c.rec.priority = 1)
          /\ (onModel /\ Len(out.value) < 2 => c.rec.priority = 5)

\* the model path with p_liked = 0.5999: score 5.999, priority 5
C6_Witness ==
    /\ fnOut.kind = "candidate"
    /\ fnOut.cand.path = "model"
    /\ fnOut.cand.score = 59990
    /\ fnOut.cand.rec.priority = 5

ClaimStrengthMatch(row) == NameHas(row, KwStrength) \/ NameHas(row, KwWeight)

\* the two rows differ in the cardio keyword alone: the first has it
ClaimCardioPair(a, b) ==
    /\ NameHas(a, KwCardio) /\ ~NameHas(b, KwCardio)
    /\ ClaimStrengthMatch(a) = ClaimStrengthMatch(b)

\* C7: with has_cardio true, of two routines that differ only in whether the
\* name contains "cardio", the one containing it has a rule-based score and a
\* final priority greater than or equal to the other's.
C7_CardioMonotone ==
    (/\ fnOut.kind = "rule"
     /\ fnArgs.features.has_cardio
     /\ ClaimCardioPair(fnArgs.row, fnOut.other)) =>
        /\ fnOut.score >= fnOut.other_score
        /\ fnOut.cand.rec.priority >= fnOut.other_cand.rec.priority

\* such a pair where the bonus shows in the score and in the priority
C7_Witness ==
    /\ fnOut.kind = "rule"
    /\ fnArgs.features.has_cardio
    /\ ClaimCardioPair(fnArgs.row, fnOut.other)
    /\ fnOut.score > fnOut.other_score
    /\ fnOut.cand.rec.priority > fnOut.other_cand.rec.priority

ClaimModelUsable == model.is_trained /\ model.model # NoneModel

\* C8: predict is called for a candidate only when the model has
\* is_trained = true and a non-null classifier; in every other model state
\* every candidate is scored by the rule-based path without a call of predict.
C8_PredictOnlyWhenTrained ==
    Responded =>
      \A i \in 1..Len(trace.items) :
        /\ trace.items[i].predicted => ClaimModelUsable
        /\ ~ClaimModelUsable =>
             /\ trace.items[i].path = "rule"
             /\ ~trace.items[i].predicted
             /\ trace.items[i].score =
                  _calculate_rule_based_score(trace.items[i].row, trace.features)

\* a model with is_trained = true and no classifier: candidates scored by rules
C8_Witness ==
    /\ Responded
    /\ model.is_trained /\ model.model = NoneModel
    /\ Len(trace.items) > 1
    /\ \A i \in 1..Len(trace.items) :
         trace.items[i].path = "rule" /\ ~trace.items[i].predicted

\* C9: when predict raises for a candidate, that candidate gets the rule-based
\* score, every candidate of the library is still processed, each with its own
\* call of predict, and the handler returns a normal response.
C9_PredictFailureRecovered ==
    (Responded /\ ClaimModelUsable /\ Len(routines_df) > 0
       /\ predict(model, trace.features).raised) =>
        /\ resp.status = "ok"
        /\ Len(trace.items) = Len(routines_df)
        /\ Len(resp.existing_routines) = Min(5, Len(routines_df))
        /\ \A i \in 1..Len(trace.items) :
             /\ trace.items[i].row = routines_df[i]
             /\ trace.items[i].predicted
             /\ trace.items[i].path = "fallback"
             /\ trace.items[i].score =
                  _calculate_rule_based_score(trace.items[i].row, trace.features)

\* three candidates, predict raised for each, a normal response of three
C9_Witness ==
    /\ Responded /\ resp.status = "ok"
    /\ Len(routines_df) = 3
    /\ Len(resp.existing_routines) = 3
    /\ \A i \in 1..3 : trace.items[i].path = "fallback" /\ trace.items[i].predicted

\* C10: the reasoning of each existing recommendation is that of the path
\* that gave its score: the fixed model statement when the score came from
\* the model, the rule conditions (or the generic statement) when it came from
\* the rules, a fallback after a failed predict included.
C10_ReasoningMatchesPath ==
    Responded =>
      \A i \in 1..Len(trace.items) :
        trace.items[i].rec.reasoning =
          IF trace.items[i].path = "model"
          THEN "Recommended because " \o MlReason \o "."
          ELSE _generate_reasoning_for_existing_routine(
                   trace.items[i].row, trace.features, FALSE)

\* the last call was `op` and has returned or raised
Called(op) == resp.kind = "result" /\ resp.op = op

\* the model state a call found is untrained in the claim's sense
ClaimUntrained(m) == ~m.is_trained \/ m.model = NoneModel

\* C11: predict on an untrained model (is_trained false, or no classifier)
\* returns exactly (0.5, 0.5) for every feature mapping, raises nothing and
\* leaves the model as it was.
C11_UntrainedPredictNeutral ==
    (Called("predict") /\ ClaimUntrained(trace.before)) =>
        /\ ~resp.raised
        /\ resp.value = <<5000, 5000>>
        /\ model = trace.before

\* predict answered on a model whose flag is set while its classifier is None,
\* for a mapping that has none of the feature names
C11_Witness ==
    /\ Called("predict")
    /\ trace.before.is_trained /\ trace.before.model = NoneModel
    /\ trace.arg = [weight |-> 70]
    /\ resp.value = <<5000, 5000>>

\* C12: after a trained model M was saved, a fresh model that loads the file
\* has is_trained true, holds the classifier, the scaler and the flag exactly
\* as M held them, and answers predict as M does for every input.
C12_SaveLoadRoundTrip ==
    (Called("load_fresh") /\ Writer # NoWriter) =>
        /\ ~resp.raised
        /\ fresh.is_trained
        /\ fresh = Writer
        /\ \A x \in PredictInputs : predict(fresh, x) = predict(Writer, x)

\* a model trained on both classes was saved and loaded into a fresh model,
\* and it answers some input with other than the neutral pair
C12_Witness ==
    /\ Called("load_fresh") /\ Writer = model
    /\ model.is_trained /\ model.model.n_classes = 2
    /\ \E x \in PredictInputs :
         /\ ~predict(fresh, x).raised
         /\ predict(fresh, x).value # <<5000, 5000>>

\* a call of `op` was started and is the last call started
Started(op) == trace.kind = "call" /\ trace.op = op

\* C13: save on a model whose is_trained is false raises (ValueError, the
\* code's InvalidState) before anything is written: in every state after the
\* call started, the call has raised, the path holds what it held before
\* (nothing, or the file that was there) and the model is as it was.
C13_UntrainedSaveRejected ==
    (Started("save") /\ ~trace.before.is_trained) =>
        /\ Called("save") /\ resp.raised /\ resp.error = "ValueError"
        /\ pc = "life"
        /\ artifact = trace.file_before
        /\ model = trace.before

\* save was refused on an untrained model while a file was present at the path
C13_Witness ==
    /\ Started("save") /\ ~trace.before.is_trained
    /\ Called("save") /\ resp.raised
    /\ Len(trace.file_before) # 0
    /\ artifact = trace.file_before

\* C14: save writes the classifier, the scaler and the flag as one atomic
\* unit: in every state after a save got past its is_trained test, while it is
\* writing and after it was interrupted or has returned, the path holds
\* nothing, the complete file it held before the call, or the complete new
\* file, never a partly written one.
C14_AtomicSave ==
    (Started("save") /\ trace.before.is_trained) =>
        \/ artifact = <<>>
        \/ artifact = trace.file_before
        \/ artifact = <<dump(trace.before)>>

\* the model object the last load call was made on
Loaded == IF trace.op = "load" THEN model ELSE fresh

\* the path holds an artifact: a mapping with the classifier and the scaler,
\* with or without the flag
ClaimArtifact(file) ==
    Len(file) # 0 /\ {"model", "scaler"} \subseteq DOMAIN file[1]

\* C15: load raises FileNotFoundError (the code's NotFound) when the path holds
\* nothing; when it holds an artifact, load sets classifier, scaler and
\* is_trained from it, and is_trained is true when the artifact has no flag.
C15_LoadContract ==
    (Called("load") \/ Called("load_fresh")) =>
        /\ Len(trace.file_before) = 0 =>
             resp.raised /\ resp.error = "FileNotFoundError"
        /\ ClaimArtifact(trace.file_before) =>
             LET data == trace.file_before[1] IN
             /\ ~resp.raised
             /\ Loaded.model = data.model
             /\ Loaded.scaler = data.scaler
             /\ Loaded.is_trained =
                  IF "is_trained" \in DOMAIN data THEN data.is_trained ELSE TRUE

\* an untrained model loaded an artifact that has no flag and is trained now
C15_Witness ==
    /\ Called("load")
    /\ ~trace.before.is_trained
    /\ ClaimArtifact(trace.file_before)
    /\ "is_trained" \notin DOMAIN trace.file_before[1]
    /\ model.is_trained

\* the labels of a training frame contain both classes
ClaimBothClasses(frame) ==
    /\ Len(frame) # 0
    /\ "user_preference" \in DOMAIN frame[1]
    /\ {<<0>>, <<1>>} \subseteq {frame[i].user_preference : i \in DOMAIN frame}

\* C16 as stated: over every sequence of train, predict, save and load calls
\* on one model, is_trained goes from false to true only in a train call whose
\* frame has both classes or in a load call, from true to false only in a load
\* call, and predict and save never change it.
C16_FlagTransitions ==
    trace.kind = "call" =>
        /\ (~trace.before.is_trained /\ model.is_trained) =>
               \/ trace.op = "train" /\ ClaimBothClasses(trace.arg)
               \/ trace.op = "load"
        /\ (trace.before.is_trained /\ ~model.is_trained) => trace.op = "load"
        /\ trace.op \in {"predict", "save"} =>
               model.is_trained = trace.before.is_trained

\* C16 amended: is_trained goes from false to true only in a train call that
\* returns without raising on a non-empty frame (one class is enough for
\* train; only train_model tests for both classes before it calls train) or
\* in a load call, from true to false only in a load call, and predict and
\* save never change it.
C16_FlagTransitionsAmended ==
    trace.kind = "call" =>
        /\ (~trace.before.is_trained /\ model.is_trained) =>
               \/ /\ Called("train") /\ ~resp.raised
                  /\ Len(trace.arg) # 0
               \/ trace.op = "load"
        /\ (trace.before.is_trained /\ ~model.is_trained) => trace.op = "load"
        /\ trace.op \in {"predict", "save"} =>
               model.is_trained = trace.before.is_trained
        /\ (Called("train_model") /\ resp.value) =>
               ClaimBothClasses(trace.arg) /\ Writer.is_trained

\* train on a frame whose labels are all 1 made an untrained model trained
C16_Witness ==
    /\ Called("train") /\ ~resp.raised
    /\ ~trace.before.is_trained /\ model.is_trained
    /\ ~ClaimBothClasses(trace.arg)
    /\ model.model.n_classes = 1

\* C17: train on an empty frame raises nothing and changes nothing: the
\* classifier, the scaler and is_trained are as before, on an untrained model
\* and on a trained one.
C17_EmptyTrainNoOp ==
    (Called("train") /\ Len(trace.arg) = 0) =>
        /\ ~resp.raised
        /\ model.model = trace.before.model
        /\ model.scaler = trace.before.scaler
        /\ model.is_trained = trace.before.is_trained

\* train on the empty frame returned on a model trained before
C17_Witness ==
    /\ Called("train") /\ Len(trace.arg) = 0
    /\ trace.before.is_trained /\ trace.before.model # NoneModel
    /\ model = trace.before

\* the extractor has returned
Extracted == pc = "feat" /\ fnOut.kind = "features"

\* C18: with an empty workout history the extractor returns exactly the default
\* vector (zeros and false under all seven keys), whatever the library holds.
C18_DefaultVectorOnEmptyHistory ==
    (Extracted /\ Len(workout_df) = 0) =>
        fnOut.value =
            [completion_rate |-> 0, avg_time_delta |-> 0, total_workouts |-> 0,
             completed_workouts |-> 0, has_cardio |-> FALSE, has_strength |-> FALSE,
             avg_duration |-> 0]

\* the default vector was returned for a library that has a cardio name and a
\* strength name
C18_Witness ==
    /\ Extracted /\ Len(workout_df) = 0
    /\ Len(routines_df) = 2
    /\ routines_df[1].name = NameCardioUpper /\ routines_df[2].name = NamePower
    /\ ~fnOut.value.has_cardio /\ ~fnOut.value.has_strength

\* some single name of the library, lower-cased, contains one of the words
ClaimSomeName(rdf, words) ==
    \E i \in 1..Len(rdf) : \E w \in words : Contains(Lower(rdf[i].name), w)

\* C19: with a non-empty history, has_cardio is true iff some single routine
\* name, lower-cased, contains "cardio", "hiit", "running" or "endurance", and
\* has_strength iff some single name contains "strength", "weight", "lifting"
\* or "power": the search over the names joined by a space finds no more than
\* the search name by name; both are false for an empty library.
C19_KeywordFlagsPerName ==
    (Extracted /\ Len(workout_df) # 0) =>
        /\ fnOut.value.has_cardio <=>
             ClaimSomeName(routines_df, {KwCardio, KwHiit, KwRunning, KwEndurance})
        /\ fnOut.value.has_strength <=>
             ClaimSomeName(routines_df, {KwStrength, KwWeight, KwLifting, KwPower})
        /\ Len(routines_df) = 0 =>
             ~fnOut.value.has_cardio /\ ~fnOut.value.has_strength

\* two names that spell a keyword only when put side by side: neither flag set
C19_Witness ==
    /\ Extracted /\ Len(workout_df) # 0
    /\ Len(routines_df) = 2
    /\ routines_df[1].name = NameCar /\ routines_df[2].name = NameDio
    /\ ~fnOut.value.has_cardio /\ ~fnOut.value.has_strength

\* a request has ended, with a response or with an error
Ended == pc \in {"responded", "failed"}

\* the user id is malformed: empty, or not an identifier of a user
ClaimMalformed(user_id) == user_id = "" \/ user_id = "not-an-id"

\* C20: a request with a malformed user id (empty, or no identifier) ends in a
\* validation error (status 400), without any fetch and without
\* recommendation lists.
C20_MalformedIdRejected ==
    (Ended /\ ClaimMalformed(trace.user_id)) =>
        /\ trace.http = 400
        /\ trace.fetches = <<>>
        /\ resp.status = "error"
        /\ resp.existing_routines = <<>> /\ resp.new_routines = <<>>

\* a sequence has no element twice
ClaimNoRepeat(seq) == \A i, j \in 1..Len(seq) : i # j => seq[i] # seq[j]

InFlight == pc = "conc"

\* the response request r produces when it runs alone on its data snapshot
ClaimAlone(r) ==
    get_recommendations(ServiceModel(artifact), UserUuid,
                        [failed |-> trace[r].failed, wdf |-> trace[r].wdf,
                         rdf |-> trace[r].rdf]).response

\* C22: requests never write to the shared model: in every state of every
\* interleaving of the requests in flight, whatever their outcomes (default,
\* normal, predict fallback, fetch error), the model's classifier, scaler and
\* is_trained are those the service was constructed with, and the response of
\* each finished request is the response the same request produces when it
\* runs alone on the same data snapshot.
C22_RequestsLeaveModel ==
    InFlight =>
        /\ model = ServiceModel(artifact)
        /\ \A r \in Requests : trace[r].phase = "done" => resp[r] = ClaimAlone(r)

\* one request finished on the model path while the other, on different data,
\* is inside its scoring loop with one prediction made and one to make
C22_Witness ==
    /\ InFlight
    /\ trace["a"].phase = "done" /\ resp["a"].status = "ok"
    /\ trace["a"].use_ml /\ Len(resp["a"].existing_routines) = 2
    /\ trace["b"].phase = "scoring" /\ trace["b"].use_ml
    /\ trace["b"].idx = 2 /\ Len(trace["b"].rdf) = 2
    /\ trace["b"].rdf # trace["a"].rdf
    /\ model.is_trained /\ predict(model, trace["b"].features).raised = FALSE


\* the artifact is missing, or load raises on it
ClaimNoUsableArtifact(file) == Len(file) = 0 \/ load(SimpleRecommender, file).raised

\* C23: constructing the service never fails because of the artifact: from
\* the state before construction the constructor can always complete, and when
\* the artifact is missing or load raised on it, the constructed model is not
\* trained and every request that scores existing routines scores each of
\* them by the rule-based path, without calling predict.
C23_ConstructionSurvivesArtifact ==
    /\ pc = "start" => ENABLED ServiceInit
    /\ (pc \in {"idle", "responded", "failed"} /\ ClaimNoUsableArtifact(artifact)) =>
           ~model.is_trained
    /\ (Responded /\ ClaimNoUsableArtifact(artifact)) =>
        /\ ~trace.use_ml
        /\ \A i \in 1..Len(trace.items) :
             trace.items[i].path = "rule" /\ ~trace.items[i].predicted

\* a request scored two routines by the rules on a service whose load raised
\* after it had assigned the classifier
C23_Witness ==
    /\ Responded
    /\ artifact = <<ArtNoScaler>>
    /\ load(SimpleRecommender, artifact).raised
    /\ model.model # NoneModel
    /\ Len(trace.items) >= 2
    /\ resp.status = "ok"


\* the model is one train() leaves: flagged trained, classifier and scaler
\* fitted on the feature columns train() selects
ClaimTrainedByTrain(m) ==
    /\ m.is_trained /\ m.model # NoneModel
    /\ m.model.fitted /\ m.scaler.fitted
    /\ \E columns \in SUBSET {"routine_type_encoded"} :
         /\ m.scaler.feature_names_in = TrainFeatures(columns)
         /\ m.model.n_features_in = Cardinality(TrainFeatures(columns))

\* C24: with a model trained through train() and a non-empty library, the
\* mapping the scorer passes to predict has the feature set the scaler was
\* fitted on, so predict returns probabilities and every existing priority is
\* min(10, max(1, trunc(10 * p_liked))), never a rule-based fallback value.
C24_TrainedModelScoresByModel ==
    (Responded /\ ClaimTrainedByTrain(model) /\ Len(routines_df) # 0) =>
        /\ DOMAIN trace.features = model.scaler.feature_names_in
        /\ \A i \in 1..Len(trace.items) :
             /\ trace.items[i].path = "model"
             /\ trace.items[i].rec.priority =
                  Min(10, Max(1, IntOf(10 * predict_proba(model.model, trace.features)[2])))


\* the keyword bonuses of the rule-based score that apply to a routine
ClaimCardioBonus(row, features) ==
    features.has_cardio /\ Contains(Lower(row.name), KwCardio)
ClaimStrengthBonus(row, features) ==
    features.has_strength /\ \E w \in ScoreStrengthKeywords : Contains(Lower(row.name), w)
\* 5, plus 1 for each of the two performance conditions that hold
ClaimPerformancePoints(features) ==
    5 + Ind(features.completion_rate > 70) + Ind(features.avg_time_delta < -60)

\* C25: on the rule-based path the final priority is one of 5, 6, 7, 8; one
\* keyword bonus of 0.5 alone leaves the priority at the performance points,
\* and only the two keyword bonuses together raise it by 1.
C25_RulePriorityRange ==
    (fnOut.kind = "rule") =>
        LET priority == fnOut.cand.rec.priority
            both == ClaimCardioBonus(fnArgs.row, fnArgs.features)
                    /\ ClaimStrengthBonus(fnArgs.row, fnArgs.features)
        IN  /\ ~fnOut.cand.raised /\ fnOut.cand.path = "rule"
            /\ priority \in {5, 6, 7, 8}
            /\ priority = ClaimPerformancePoints(fnArgs.features) + Ind(both)

\* one routine with the cardio bonus alone stays at 6 on a score of 6.5 while
\* another with both bonuses reaches 7, for the same features
C25_Witness ==
    /\ fnOut.kind = "rule"
    /\ ClaimCardioBonus(fnArgs.row, fnArgs.features)
    /\ ~ClaimStrengthBonus(fnArgs.row, fnArgs.features)
    /\ fnOut.score = 6 * ScoreUnit + ScoreUnit \div 2
    /\ fnOut.cand.rec.priority = 6
    /\ ClaimCardioBonus(fnOut.other, fnArgs.features)
    /\ ClaimStrengthBonus(fnOut.other, fnArgs.features)
    /\ fnOut.other_cand.rec.priority = 7


\* every candidate of the request was scored from a prediction that returned
ClaimAllByModel(items) ==
    Len(items) # 0 /\ \A i \in 1..Len(items) : items[i].path = "model" /\ ~items[i].raised

\* C26: when every candidate is scored by the model path without error, all
\* candidates receive the same priority (the prediction is made from the
\* user's features alone), and the list returned is the first min(5, n)
\* routines of the library, in library order.
C26_ModelPathKeepsLibraryOrder ==
    (Responded /\ resp.status = "ok" /\ ClaimAllByModel(trace.items)) =>
        /\ Len(trace.items) = Len(routines_df)
        /\ \A i, j \in 1..Len(trace.items) :
             trace.items[i].rec.priority = trace.items[j].rec.priority
        /\ Len(resp.existing_routines) = Min(5, Len(routines_df))
        /\ \A k \in 1..Len(resp.existing_routines) :
             /\ resp.existing_routines[k].routine_id = ToString(routines_df[k].id)
             /\ resp.existing_routines[k] = trace.items[k].rec

\* six routines scored by the model for a user with cardio history, a routine
\* with both keywords last in the library: the first five are returned
C26_Witness ==
    /\ Responded /\ resp.status = "ok"
    /\ ClaimAllByModel(trace.items)
    /\ Len(routines_df) = 6
    /\ routines_df[1].name = NameWod /\ routines_df[6].name = NameCardioWeights
    /\ trace.features.has_cardio
    /\ Len(resp.existing_routines) = 5
    /\ resp.existing_routines[5].routine_id = ToString(routines_df[5].id)


\* C27: for every successful request the new-recommendation list is not
\* empty, holds no template twice, holds the balanced template only as its
\* sole element, and its priorities never increase from first to last,
\* although the list is never sorted.
C27_NewListShape ==
    (Responded /\ resp.status = "ok") =>
        LET new == resp.new_routines IN
        /\ Len(new) >= 1
        /\ \A i, j \in 1..Len(new) : i # j => new[i].name # new[j].name
        /\ \A i \in 1..Len(new) : new[i] = _create_balanced_routine => Len(new) = 1
        /\ \A i \in 1..(Len(new) - 1) : new[i].priority >= new[i + 1].priority

\* a request whose features were extracted answered three templates with
\* priorities 9, 8, 8
C27_Witness ==
    /\ Responded /\ resp.status = "ok"
    /\ trace.features # NoFeatures
    /\ Len(resp.new_routines) = 3
    /\ resp.new_routines[1].priority = 9
    /\ resp.new_routines[2].priority = 8
    /\ resp.new_routines[3].priority = 8


\* C28: when the history is empty, the library is not and the model is
\* untrained, every existing recommendation has priority 5 and the generic
\* reasoning, whatever the routines are named, and the new list is exactly
\* [quick workout (9), cardio (8), strength (8)], also when the library holds
\* routines named for cardio or strength.
C28_EmptyHistoryWithLibrary ==
    (Responded /\ Len(workout_df) = 0 /\ Len(routines_df) # 0 /\ ClaimUntrained(model)) =>
        /\ resp.status = "ok"
        /\ Len(resp.existing_routines) = Min(5, Len(routines_df))
        /\ \A i \in 1..Len(resp.existing_routines) :
             /\ resp.existing_routines[i].priority = 5
             /\ resp.existing_routines[i].reasoning =
                  "Recommended because this routine matches your current fitness level."
        /\ NamePriority(resp.new_routines) = <<ClaimQuick, ClaimCardio, ClaimStrength>>

\* the library of the request holds a routine named for cardio and weights
C28_Witness ==
    /\ Responded /\ Len(workout_df) = 0 /\ ~model.is_trained
    /\ Len(routines_df) >= 2
    /\ \E i \in 1..Len(routines_df) : routines_df[i].name = NameCardioWeights
    /\ Len(resp.existing_routines) >= 2
    /\ resp.existing_routines[1].priority = 5
    /\ Len(resp.new_routines) = 3


\* C29: in every state reached from a fresh SimpleRecommender by train,
\* predict, save and load calls in any order, where load reads only files
\* written by save, is_trained implies that the classifier is present and
\* fitted and that the scaler is fitted on the feature set the classifier was
\* fitted on.
C29_TrainedImpliesFitted ==
    (pc \in {"life", "saving"} /\ model.is_trained) =>
        /\ model.model # NoneModel
        /\ model.model.fitted
        /\ model.scaler.fitted
        /\ model.model.n_features_in = Cardinality(model.scaler.feature_names_in)

\* C30: a train or load call that raises part-way leaves the classifier, the
\* scaler and is_trained as they were before the call, so a model trained
\* before still predicts as before.
C30_FailedCallLeavesModel ==
    ((Called("train") \/ Called("load")) /\ resp.raised) =>
        /\ model = trace.before
        /\ \A x \in PredictInputs : predict(model, x) = predict(trace.before, x)

====
